---------------------------- MODULE Spec2Model ----------------------------
(***************************************************************************)
(* A model of the troll-swap repository:                                   *)
(*   - the Jupiter reverse proxy route handlers (GET, POST, OPTIONS), in    *)
(*     its two versions: src/src/app/api/jupiter/[...path]/route.ts        *)
(*     ("route") and the route of src/unnamed/part_000 ("buffered");       *)
(*   - the swap orchestration doSwap of src/src/app/page.tsx, in its two    *)
(*     versions (line 761, "v1", and line 1792, "v2");                     *)
(*   - the SOL withdrawal (estimateSolTransferFee, refreshWithdrawFee,     *)
(*     sendWithdrawSol);                                                   *)
(*   - the WebSocket subscription effect with its fast-poll fallback.      *)
(* Amounts of SOL are counted in lamports; decimal numbers are kept as a    *)
(* mantissa and a power of ten.                                            *)
(***************************************************************************)
EXTENDS Integers, Sequences, FiniteSets, TLC

VARIABLES
    \* ---- proxy ----
    pxImpl,        \* which version of the route file serves the request
    pxReq,         \* the incoming request of the last handler call
    pxSent,        \* the request the handler sent upstream (or NotSent)
    pxUp,          \* what the upstream fetch did (or NotCalled)
    pxResp,        \* what the handler returned (or threw)
    \* ---- the wallet and the page's shared state ----
    publicKey,     \* useWallet().publicKey: Null or a key
    toasts,        \* the toast list (React state)
    toastIdRef,    \* toastIdRef.current
    toastTimers,   \* the pending removal timers: toast id, ms left
    pushed,        \* every toast pushToast ever pushed, in order
    solBalance,    \* floor(solBalance * LAMPORTS_PER_SOL)
    trollBalance,  \* TROLL balance (UI units)
    trollDecimals, \* decimals of the TROLL mint
    trollAcctRef,  \* trollAcctRef.current
    \* ---- swap ----
    swImpl,        \* which version of page.tsx: "v1" or "v2"
    amountStr, inMintStr, outMintStr, inputDecimals,
    percent,       \* the slider's percent (a number, or NaN)
    quoteResponseMeta,
    sw,            \* the running doSwap invocation
    swCalls,       \* external calls made by the running/last doSwap, in order
    lastTx, showModal,
    \* ---- fetchQuoteWithRetry ----
    rt,            \* the invocation: its arguments, locals and position
    rtLog,         \* what it did so far: calls, settlements, waits
    \* ---- withdraw ----
    wdOpen, wdTo, wdSol, wdFeeLamports, wdEstimating, wdSending,
    wd,            \* the running sendWithdrawSol invocation
    wdCalls,       \* external calls made by the running/last sendWithdrawSol
    rf,            \* the running refreshWithdrawFee invocation
    \* ---- WebSocket subscription effect ----
    WS,            \* NEXT_PUBLIC_WS_URL is configured
    mounted,       \* the screen: "no", "yes", "gone" (unmounted)
    fastPollRef,   \* fastPollRef.current: <<>> (null) or <<timer id>>
    fx,            \* the runs of the effect, in order
    listeners,     \* account-change listeners registered in the connection
    timers,        \* active setInterval(refreshBalances, 3000) timers
    nextHandle     \* next subscription / timer id handed out

pxVars == <<pxImpl, pxReq, pxSent, pxUp, pxResp>>
pageVars == <<publicKey, toasts, toastIdRef, toastTimers, pushed,
              solBalance, trollBalance, trollDecimals,
              trollAcctRef>>
swVars == <<swImpl, amountStr, inMintStr, outMintStr, inputDecimals,
            percent, quoteResponseMeta, sw, swCalls, lastTx, showModal>>
wdVars == <<wdOpen, wdTo, wdSol, wdFeeLamports, wdEstimating, wdSending,
            wd, wdCalls, rf>>
wsVars == <<WS, mounted, fastPollRef, fx, listeners, timers, nextHandle>>
rtVars == <<rt, rtLog>>
vars == <<pxVars, pageVars, swVars, rtVars, wdVars, wsVars>>

Null == "<null>"
Absent == "<absent>"

(***************************************************************************)
(*                              THE PROXY                                  *)
(***************************************************************************)

\* Bound: the longest upstream body, in byte tokens.
MaxBodyLen == 2

CorsNames == {"access-control-allow-origin", "access-control-allow-methods",
              "access-control-allow-headers", "access-control-max-age"}
HeaderNames == CorsNames \cup {"content-type", "content-encoding",
                               "content-length", "accept", "authorization",
                               "cookie"}

\* Header names are case-insensitive: Headers keeps them in lower case.
CORS_HEADERS ==
    [n \in CorsNames |->
        CASE n = "access-control-allow-origin" -> "*"
          [] n = "access-control-allow-methods" -> "GET,POST,OPTIONS"
          [] n = "access-control-allow-headers" ->
                 "Content-Type, Authorization, X-Requested-With"
          [] n = "access-control-max-age" -> "86400"]

NoHeaders == [n \in HeaderNames |-> Absent]

\* new Headers(init): a copy.
NewHeaders(init) == [n \in HeaderNames |-> init[n]]

HeadersSet(h, name, value) == [h EXCEPT ![name] = value]
HeadersDelete(h, name) == [h EXCEPT ![name] = Absent]

\* A plausible slip: set a CORS header only when the response has none.
applyCorsIfMissing(headers) ==
    [n \in HeaderNames |->
        IF n \in CorsNames /\ headers[n] = Absent THEN CORS_HEADERS[n]
        ELSE headers[n]]

\* applyCors: headers.set(key, value) for every entry of CORS_HEADERS.
applyCors(headers) ==
    [n \in HeaderNames |->
        IF n \in DOMAIN CORS_HEADERS THEN CORS_HEADERS[n] ELSE headers[n]]

\* Bodies: a body is null or a sequence of byte tokens; "BAD" is a byte that
\* is not valid UTF-8, "BOM" the UTF-8 byte order mark, "FFFD" the encoding of
\* U+FFFD.
ByteTokens == {"a", "BOM", "BAD"}
NullBody == [kind |-> "null"]
Bytes(b) == [kind |-> "bytes", bytes |-> b]
JsonBody(e, m) == [kind |-> "json", error |-> e, message |-> m]
BodyBytes(body) == IF body.kind = "bytes" THEN body.bytes ELSE <<>>

RECURSIVE SeqsUpTo(_, _)
SeqsUpTo(S, n) ==
    IF n = 0 THEN {<<>>}
    ELSE LET shorter == SeqsUpTo(S, n - 1)
         IN shorter \cup {Append(s, x) : s \in {t \in shorter : Len(t) = n - 1},
                                           x \in S}

\* UTF-8 decoding with replacement, then encoding again (a string body).
ReplaceInvalid(b) == [i \in 1..Len(b) |-> IF b[i] = "BAD" THEN "FFFD" ELSE b[i]]

\* Response.text(): UTF-8 decode, which drops a leading byte order mark.
ResponseText(b) ==
    ReplaceInvalid(IF Len(b) > 0 /\ b[1] = "BOM" THEN Tail(b) ELSE b)

\* Buffer.toString('utf8'): the byte order mark stays.
BufferToStringUtf8(b) == ReplaceInvalid(b)

\* Statuses with which a Response may not carry a body (Fetch standard).
NullBodyStatus == {101, 103, 204, 205, 304}

\* new Response(body, {status, headers}): a TypeError when a body is given
\* with a null body status.
NewResponse(body, status, headers) ==
    IF body.kind # "null" /\ status \in NullBodyStatus
    THEN [kind |-> "throw", isError |-> TRUE,
          message |-> "Response constructor: Invalid response status code"]
    ELSE [kind |-> "response", status |-> status, headers |-> headers,
          body |-> body]

\* A plausible slip: the catch block answers 500.
CatchResponse500(error) ==
    [kind |-> "response", status |-> 500,
     headers |-> applyCors(HeadersSet(NoHeaders, "content-type",
                                      "application/json")),
     body |-> JsonBody("Jupiter proxy failed",
                       IF error.isError THEN error.message
                       ELSE "Unknown proxy error")]

\* The catch block of proxy().
CatchResponse(error) ==
    LET message == IF error.isError THEN error.message
                   ELSE "Unknown proxy error"
        headers == HeadersSet(NoHeaders, "content-type", "application/json")
    IN [kind |-> "response", status |-> 502, headers |-> applyCors(headers),
        body |-> JsonBody("Jupiter proxy failed", message)]

\* A plausible slip: the headers of the incoming request are passed on as
\* they are, with the default for accept.
ForwardHeadersAll(request) ==
    IF request.headers["accept"] \in {Absent, ""}
    THEN HeadersSet(NewHeaders(request.headers), "accept", "application/json")
    ELSE NewHeaders(request.headers)

\* The headers of the upstream request.
ForwardHeaders(request) ==
    LET copied == [n \in HeaderNames |->
                     IF n \in {"content-type", "accept", "authorization"}
                        /\ request.headers[n] # Absent
                        /\ request.headers[n] # ""
                     THEN request.headers[n] ELSE Absent]
    IN IF copied["accept"] = Absent
       THEN HeadersSet(copied, "accept", "application/json")
       ELSE copied

\* init of the upstream fetch.
UpstreamInit(request) ==
    [method |-> request.method, headers |-> ForwardHeaders(request),
     body |-> IF request.method \notin {"GET", "HEAD", "OPTIONS"}
                 /\ request.body # ""
              THEN request.body ELSE Absent]

\* The try block of proxy() in route.ts, given the upstream response.
TryRoute(up) ==
    LET responseHeaders == applyCors(NewHeaders(up.headers))
    IN IF up.status >= 400
       THEN NewResponse(Bytes(ResponseText(BodyBytes(up.body))), up.status,
                HeadersDelete(HeadersDelete(responseHeaders,
                    "content-encoding"), "content-length"))
       ELSE NewResponse(up.body, up.status, responseHeaders)

\* The try block of proxy() in part_000, which buffers the body first.
TryBuffered(up) ==
    LET responseHeaders ==
            HeadersDelete(HeadersDelete(applyCors(NewHeaders(up.headers)),
                "content-encoding"), "content-length")
        payload == BodyBytes(up.body)
    IN IF up.status >= 400
       THEN NewResponse(Bytes(BufferToStringUtf8(payload)), up.status,
                        responseHeaders)
       ELSE NewResponse(Bytes(payload), up.status, responseHeaders)

\* proxy(): try { fetch, build the response } catch { 502 }.
proxy(impl, up) ==
    IF up.kind = "throw" THEN CatchResponse(up)
    ELSE LET r == IF impl = "route" THEN TryRoute(up) ELSE TryBuffered(up)
         IN IF r.kind = "throw" THEN CatchResponse(r) ELSE r

ForeignCors ==
    [n \in CorsNames |->
        CASE n = "access-control-allow-origin" -> "https://jup.ag"
          [] n = "access-control-allow-methods" -> "GET"
          [] n = "access-control-allow-headers" -> "X-Upstream"
          [] n = "access-control-max-age" -> "600"]

UpstreamHeaders ==
    {[n \in HeaderNames |->
        IF n \in CorsNames THEN (IF cors THEN ForeignCors[n] ELSE Absent)
        ELSE IF n = "content-type" THEN "application/json"
        ELSE IF n = "content-encoding" THEN ce
        ELSE IF n = "content-length" THEN cl
        ELSE Absent] :
     cors \in BOOLEAN, ce \in {Absent, "gzip"}, cl \in {Absent, "2"}}

UpstreamStatuses == {200, 204, 399, 400, 404}

\* What fetch(targetUrl, init) can do: reject, or resolve to a response. A
\* response with a null body status has a null body.
UpstreamOutcomes ==
    {[kind |-> "throw", isError |-> TRUE, message |-> m] :
        m \in {"fetch failed", "socket hang up"}}
    \cup {[kind |-> "throw", isError |-> FALSE, message |-> Absent]}
    \cup {[kind |-> "response", status |-> s, headers |-> h,
           body |-> IF s \in NullBodyStatus THEN NullBody ELSE Bytes(b)] :
          s \in UpstreamStatuses, h \in UpstreamHeaders,
          b \in SeqsUpTo(ByteTokens, MaxBodyLen)}

Requests(method) ==
    {[kind |-> "request", method |-> method,
      headers |-> [n \in HeaderNames |->
                     IF n = "accept" THEN acc
                     ELSE IF n = "authorization" THEN auth
                     ELSE IF n = "cookie" THEN cookie
                     ELSE IF n = "content-type" /\ method = "POST"
                          THEN "application/json"
                     ELSE Absent],
      body |-> body] :
     acc \in {Absent, "", "text/plain"}, auth \in {Absent, "Bearer t"},
     cookie \in {Absent, "sid=1"},
     body \in IF method = "POST" THEN {"", "{}"} ELSE {""}}

NotSent == [kind |-> "none"]
NotCalled == [kind |-> "none"]
NoResponse == [kind |-> "none"]

\* A request reaches the route (the framework picks the handler by method).
Arrive ==
    /\ pxReq.kind = "none"
    /\ \E method \in {"GET", "POST", "OPTIONS"} :
          pxReq' \in IF method = "OPTIONS"
                     THEN {[kind |-> "request", method |-> "OPTIONS",
                            headers |-> NoHeaders, body |-> ""]}
                     ELSE Requests(method)
    /\ UNCHANGED <<pxImpl, pxSent, pxUp, pxResp>>
    /\ UNCHANGED <<pageVars, swVars, rtVars, wdVars, wsVars>>

Pending(method) ==
    pxReq.kind = "request" /\ pxReq.method = method /\ pxResp = NoResponse

Handle ==
    \E up \in UpstreamOutcomes :
        /\ pxSent' = UpstreamInit(pxReq)
        /\ pxUp' = up
        /\ pxResp' = proxy(pxImpl, up)
        /\ UNCHANGED <<pxImpl, pxReq>>

GET ==
    /\ Pending("GET")
    /\ Handle
    /\ UNCHANGED <<pageVars, swVars, rtVars, wdVars, wsVars>>

POST ==
    /\ Pending("POST")
    /\ Handle
    /\ UNCHANGED <<pageVars, swVars, rtVars, wdVars, wsVars>>

OPTIONS ==
    /\ Pending("OPTIONS")
    /\ pxResp' = NewResponse(NullBody, 204, applyCors(NewHeaders(NoHeaders)))
    /\ UNCHANGED <<pxImpl, pxReq, pxSent, pxUp>>
    /\ UNCHANGED <<pageVars, swVars, rtVars, wdVars, wsVars>>

\* The framework sends the response; the route is ready for the next request.
Deliver ==
    /\ pxResp # NoResponse
    /\ pxReq' = [kind |-> "none"]
    /\ pxSent' = NotSent
    /\ pxUp' = NotCalled
    /\ pxResp' = NoResponse
    /\ UNCHANGED pxImpl
    /\ UNCHANGED <<pageVars, swVars, rtVars, wdVars, wsVars>>

PxNext == Arrive \/ GET \/ POST \/ OPTIONS \/ Deliver

(***************************************************************************)
(*                 THE PAGE: NUMBERS, TOASTS AND BALANCES                  *)
(***************************************************************************)

\* Bound: the toast ids the page may hand out.
MaxToasts == 4

\* Numbers: a finite number is m * 10^e, kept exactly.
Num(m, e) == [kind |-> "num", m |-> m, e |-> e]
NaN == [kind |-> "nan", m |-> 0, e |-> 0]
Infinity == [kind |-> "inf", m |-> 0, e |-> 0]

RECURSIVE Pow10(_)
Pow10(d) == IF d = 0 THEN 1 ELSE 10 * Pow10(d - 1)

\* The last width digits of n, with leading zeros.
RECURSIVE Digits(_, _)
Digits(n, width) ==
    IF width = 0 THEN "" ELSE Digits(n \div 10, width - 1) \o ToString(n % 10)

LAMPORTS_PER_SOL == 1000000000

\* Math.ceil(SOL_FEE_BUFFER * LAMPORTS_PER_SOL), SOL_FEE_BUFFER being 0.004.
SolFeeBufferLamports == 4 * (LAMPORTS_PER_SOL \div 1000)

\* The decimals getMintDecimals may find for a mint.
MintDecimals == {0, 2, 6, 9}

\* The balances the page may hold: SOL in lamports, TROLL in whole tokens.
SolLamports == {0, 14000600, 1000000000}
TrollAmounts == {0, 2}

\* base of the amount field, the slider and MAX: max(0, solBalance -
\* SOL_FEE_BUFFER), held in lamports (scale 9), when the input mint is SOL,
\* and trollBalance otherwise.
BaseOf(mint, sol, troll) ==
    IF mint = "SOL"
    THEN [value |-> IF sol > SolFeeBufferLamports
                    THEN sol - SolFeeBufferLamports ELSE 0,
          scale |-> 9]
    ELSE [value |-> troll, scale |-> 0]

\* Math.min(6, inputDecimals)
DpOf(decimals) == IF decimals < 6 THEN decimals ELSE 6

\* x * p / den rounded to the nearest integer, half up, without a product
\* larger than den * p.
RoundMulDiv(x, p, den) ==
    (x \div den) * p + ((x % den) * p + den \div 2) \div den

\* Number(str) of a string of toFixed: r * 10^-dp without trailing zeros.
RECURSIVE NumberOfFixed(_, _)
NumberOfFixed(r, dp) ==
    IF dp > 0 /\ r % 10 = 0 THEN NumberOfFixed(r \div 10, dp - 1)
    ELSE Num(r, 0 - dp)

\* String(n) of a number n = m * 10^e with 0 <= -e <= 6 and m >= 0.
StringOf(n) ==
    IF n.e = 0 THEN ToString(n.m)
    ELSE ToString(n.m \div Pow10(0 - n.e)) \o "."
            \o Digits(n.m % Pow10(0 - n.e), 0 - n.e)

\* (base * pct / 100).toFixed(dp) as a number: pct in 0..100, base > 0.
ToFixedOf(base, pct, dp) ==
    LET up == IF dp > base.scale THEN Pow10(dp - base.scale) ELSE 1
        down == IF base.scale > dp THEN Pow10(base.scale - dp) ELSE 1
    IN NumberOfFixed(RoundMulDiv(base.value * up, pct, 100 * down), dp)

\* What the slider effect writes: val > 0 ? String(Number(val.toFixed(dp)))
\* : '0', val being clamp(base * percent / 100, 0, base).
SliderAmount(base, pct, dp) ==
    IF pct.kind # "num" \/ pct.m <= 0 \/ base.value <= 0 THEN "0"
    ELSE StringOf(ToFixedOf(base, IF pct.m > 100 THEN 100 ELSE pct.m, dp))

\* What MAX writes: base > 0 ? String(Number(base.toFixed(dp))) : '0'.
MaxAmount(base, dp) ==
    IF base.value <= 0 THEN "0" ELSE StringOf(ToFixedOf(base, 100, dp))

\* The numbers the slider effect and MAX can write, and parseFloat of the
\* strings they are written as.
WrittenNumbers ==
    {ToFixedOf(BaseOf("SOL", sol, 0), pct, DpOf(9)) :
        sol \in SolLamports, pct \in 0..100}
    \cup {ToFixedOf(BaseOf("TROLL", 0, troll), pct, DpOf(d)) :
             troll \in TrollAmounts, pct \in 0..100, d \in MintDecimals}

WrittenStrings ==
    [s \in {StringOf(n) : n \in WrittenNumbers} |->
        CHOOSE n \in WrittenNumbers : StringOf(n) = s]

\* The amount strings the user types, and parseFloat of each of them.
AmountStrs == {"", "abc", "0", "-1", "0.0005", "0.001", "0.5", "1",
               "Infinity"}
WdSolStrs ==
    {"", "abc", "0", "-1", "0.0000000001", "0.05", "0.1", "Infinity"}

parseFloat(s) ==
    CASE s = "" -> NaN
      [] s = "abc" -> NaN
      [] s = "0" -> Num(0, 0)
      [] s = "-1" -> Num(-1, 0)
      [] s = "0.05" -> Num(5, -2)
      [] s = "0.0000000001" -> Num(1, -10)
      [] s = "0.0005" -> Num(5, -4)
      [] s = "0.001" -> Num(1, -3)
      [] s = "0.1" -> Num(1, -1)
      [] s = "0.5" -> Num(5, -1)
      [] s = "1" -> Num(1, 0)
      [] s = "1e21" -> Num(1, 21)
      [] s = "1e300" -> Num(1, 300)
      [] s = "Infinity" -> Infinity
      [] OTHER -> WrittenStrings[s]

\* amountStr || '0'
OrZero(s) == IF s = "" THEN "0" ELSE s

isFinite(n) == n.kind = "num"

\* Math.floor(n * 10 ** d) of a finite n.
FloorScaled(n, d) ==
    IF n.e + d >= 0 THEN n.m * Pow10(n.e + d)
    ELSE n.m \div Pow10(0 - (n.e + d))

\* a < b of two finite numbers.
Less(a, b) ==
    LET e == IF a.e < b.e THEN a.e ELSE b.e
    IN a.m * Pow10(a.e - e) < b.m * Pow10(b.e - e)

Zero == Num(0, 0)

\* A plausible slip: no minimum at all.
minUiForMintNone(mintStr) == Zero

\* minUiForMint: 0.001 for SOL, 1 for any other mint.
minUiForMint(mintStr) == IF mintStr = "SOL" THEN Num(1, -3) ELSE Num(1, 0)

\* The strings typed into the amount field: those above, and two large ones.
TypedStrs == AmountStrs \cup {"0.1", "1e21", "1e300"}

\* Number.MAX_VALUE is below 10^309, Number.prototype.toString switches to
\* the exponent form at 10^21.
MaxExponent == 308
ExponentForm == 21

\* n * 10 ** d of a finite n >= 0 with a one-digit mantissa: the number, or
\* Infinity when the product overflows.
TimesPow10(n, d) ==
    IF n.m > 0 /\ n.e + d > MaxExponent THEN Infinity ELSE Num(n.m, n.e + d)

\* Math.floor(x).toString() of a number x >= 0 with a one-digit mantissa:
\* the decimal digits (kept as the integer they spell), the exponent form
\* such as "1e+21", or "Infinity".
FloorToString(x) ==
    IF ~isFinite(x) THEN [form |-> "Infinity", digits |-> 0]
    ELSE IF x.m > 0 /\ x.e >= ExponentForm
    THEN [form |-> "exponent", digits |-> 0]
    ELSE [form |-> "digits", digits |-> FloorScaled(x, 0)]

\* JSBI.BigInt(string): the BigInt, or a SyntaxError for a string that is
\* not an integer literal.
JSBIBigInt(str) ==
    IF str.form = "digits" THEN [kind |-> "bigint", value |-> str.digits]
    ELSE [kind |-> "throw", value |-> 0]

\* The useMemo of amountAtomic for an amount string and decimals:
\* JSBI.BigInt(Math.floor((finite n > 0 ? n : 0) * 10 ** d).toString()).
AmountAtomicOf(str, d) ==
    LET n == parseFloat(OrZero(str))
    IN JSBIBigInt(FloorToString(
           TimesPow10(IF isFinite(n) /\ n.m > 0 THEN n ELSE Zero, d)))

amountAtomic == AmountAtomicOf(amountStr, inputDecimals)

bigIntIsZero(x) == x.value = 0

Toast(id, kind, message, href) ==
    [id |-> id, kind |-> kind, message |-> message, href |-> href]

\* The delay of the removal timer of a toast, and the step of time.
ToastMs == 4500
ToastTick == 1500

\* A plausible slip: the filter keeps the toasts that came after the one
\* removed, and drops the older ones with it.
RemoveToastAndOlder(t, id) == SelectSeq(t, LAMBDA x : x.id > id)

\* t.filter((x) => x.id !== id)
RemoveToast(t, id) == SelectSeq(t, LAMBDA x : x.id # id)

\* pushToast: a new id, the toast appended, its removal timer started.
pushToast(kind, message, href) ==
    /\ toasts' = Append(toasts, Toast(toastIdRef, kind, message, href))
    /\ toastIdRef' = toastIdRef + 1
    /\ toastTimers' = toastTimers \cup {[id |-> toastIdRef, ms |-> ToastMs]}
    /\ pushed' = Append(pushed, Toast(toastIdRef, kind, message, href))

NoToast == UNCHANGED <<toasts, toastIdRef, toastTimers, pushed>>

\* What the RPC calls of refreshBalances can do.
BalanceRpc(balOk, bal, rest, ui) ==
    [balanceOk |-> balOk, balance |-> bal, rest |-> rest, uiAmount |-> ui]

BalanceRpcOutcomes ==
    {BalanceRpc(FALSE, 0, "none", 0)}
    \cup {BalanceRpc(TRUE, b, "noAccount", 0) : b \in {0, 1000000000}}
    \cup {BalanceRpc(TRUE, 1000000000, r, 2) :
            r \in {"decimalsThrow", "accountsThrow", "parsed", "unparsed",
                   "unparsedBalanceThrow"}}

\* refreshBalances, run to its end with the given RPC results; pk is the
\* publicKey the callback has captured.
refreshBalances(pk, rpc) ==
    IF pk = Null
    THEN /\ solBalance' = 0
         /\ trollBalance' = 0
         /\ trollAcctRef' = Null
         /\ UNCHANGED trollDecimals
    ELSE IF ~rpc.balanceOk
    THEN UNCHANGED <<solBalance, trollBalance, trollDecimals, trollAcctRef>>
    ELSE /\ solBalance' = rpc.balance
         /\ IF rpc.rest = "decimalsThrow"
            THEN UNCHANGED <<trollBalance, trollDecimals, trollAcctRef>>
            ELSE /\ trollDecimals' = 6
                 /\ CASE rpc.rest = "accountsThrow" ->
                           UNCHANGED <<trollBalance, trollAcctRef>>
                      [] rpc.rest = "noAccount" ->
                           trollAcctRef' = Null /\ trollBalance' = 0
                      [] rpc.rest = "parsed" ->
                           trollAcctRef' = "trollAcct"
                           /\ trollBalance' = rpc.uiAmount
                      [] rpc.rest = "unparsed" ->
                           trollAcctRef' = "trollAcct"
                           /\ trollBalance' = rpc.uiAmount
                      [] rpc.rest = "unparsedBalanceThrow" ->
                           trollAcctRef' = "trollAcct" /\ trollBalance' = 0

(***************************************************************************)
(*                                 doSwap                                  *)
(***************************************************************************)

IdleSw ==
    [pc |-> "idle", first |-> 1, quote |-> Null, quoteHow |-> "none",
     quoteErr |-> [response |-> [status |-> 0, body |-> "none"],
                   message |-> ""],
     build |-> "none", send |-> "none", reported |-> FALSE,
     lastTx0 |-> Null, modal0 |-> FALSE]

TxIds == {"sig1", "sig2"}

NoResp == [status |-> 0, body |-> "none"]

\* What a rejected fetchQuote throws: an error with or without a response;
\* the response has an HTTP status, or status 0 (a network-error response),
\* and a body: JSON with errorCode, JSON with error, JSON with neither, text,
\* broken JSON, or a body whose reading fails.
QuoteErrors ==
    {[response |-> NoResp, message |-> m] : m \in {"Failed to fetch", ""}}
    \cup {[response |-> [status |-> 400, body |-> b], message |-> "Bad Request"] :
            b \in {"errorCode", "error", "emptyObject", "text", "badJson",
                   "unreadable"}}
    \cup {[response |-> [status |-> 0, body |-> "text"], message |-> ""]}

QuoteOutcomes ==
    {[kind |-> "resolve", quote |-> q, error |-> [response |-> NoResp,
                                                  message |-> ""]] :
        q \in {"quoteA", Null}}
    \cup {[kind |-> "throw", quote |-> Null, error |-> e] : e \in QuoteErrors}

\* A plausible slip: every thrown error is put down to the connection.
QuoteErrorMessageOneEnding(e) ==
    "Quote failed. Please check your internet and try again."

\* The message tryFetchQuoteSafe hands to onError for a thrown error.
QuoteErrorMessage(e) ==
    LET hasResponse == e.response # NoResp
        status == e.response.status
        http == "Quote failed (HTTP " \o ToString(status) \o ")."
        msg == IF hasResponse
               THEN CASE e.response.body = "errorCode" ->
                             "Quote failed (COULD_NOT_FIND_ANY_ROUTE)."
                      [] e.response.body = "error" ->
                             "Quote failed (Bad request)."
                      [] OTHER -> http
               ELSE IF e.message # "" THEN "Quote failed: " \o e.message
               ELSE "Quote failed."
    IN IF hasResponse /\ status # 0
       THEN msg \o " Try a slightly larger amount or different route."
       ELSE msg \o " Please check your internet and try again."

\* A plausible slip: the body of the error's response is read and parsed
\* outside a try block.
tryFetchQuoteSafeBodyUnguarded(o) ==
    IF o.kind = "resolve"
    THEN [kind |-> "return", quote |-> o.quote, onError |-> Absent]
    ELSE IF o.error.response.body \in {"badJson", "unreadable"}
    THEN [kind |-> "throw", quote |-> Null, onError |-> Absent]
    ELSE [kind |-> "return", quote |-> Null,
          onError |-> QuoteErrorMessage(o.error)]

\* tryFetchQuoteSafe: it returns the quote (q ?? null), or null after the
\* call of onError with the message.
tryFetchQuoteSafe(o) ==
    IF o.kind = "resolve"
    THEN [kind |-> "return", quote |-> o.quote, onError |-> Absent]
    ELSE [kind |-> "return", quote |-> Null,
          onError |-> QuoteErrorMessage(o.error)]

\* A plausible slip: the build result is not looked at.
BuildFailedIgnored(res) == FALSE

\* 'error' in res
BuildFailed(res) == res = "error"

SwDone(run) == [run EXCEPT !.pc = "done"]

\* Number(amountStr), for the strings of the model.
NumberOf(s) == IF s = "" THEN Zero ELSE parseFloat(s)

\* swapDisabled of v2 (its Swap button is disabled with it; v1 has none).
swapDisabled ==
    \/ publicKey = Null
    \/ ~isFinite(NumberOf(amountStr))
    \/ NumberOf(amountStr).m <= 0

\* doSwap, from the click to its first await.
DoSwap ==
    /\ sw.pc \in {"idle", "done", "rejected"}
    /\ toastIdRef + 2 <= MaxToasts
    /\ swImpl = "v2" => ~swapDisabled
    /\ LET run == [IdleSw EXCEPT !.first = toastIdRef, !.lastTx0 = lastTx,
                                 !.modal0 = showModal]
           uiAmount == parseFloat(OrZero(amountStr))
           minUi == minUiForMint(inMintStr)
           abort(message) == /\ pushToast("error", message, Absent)
                             /\ sw' = SwDone(run)
                             /\ swCalls' = <<>>
           quoteOrBuild ==
               /\ pushToast("info", "Building route...", Absent)
               /\ IF quoteResponseMeta # Null
                  THEN /\ sw' = [run EXCEPT !.pc = "build",
                                            !.quote = quoteResponseMeta,
                                            !.quoteHow = "cached"]
                       /\ swCalls' = <<"fetchSwapTransaction">>
                  ELSE /\ sw' = [run EXCEPT !.pc = "quote"]
                       /\ swCalls' = <<"fetchQuote">>
       IN IF publicKey = Null THEN abort("Connect your wallet first.")
          ELSE IF swImpl = "v2" THEN quoteOrBuild
          ELSE IF ~isFinite(uiAmount) \/ uiAmount.m <= 0
          THEN abort("Enter an amount greater than 0.")
          ELSE IF Less(uiAmount, minUi)
          THEN abort("Amount too small. Try at least "
                     \o (IF inMintStr = "SOL" THEN "0.001 SOL" ELSE "1 ")
                     \o ".")
          ELSE IF bigIntIsZero(amountAtomic)
          THEN abort("Amount resolves to 0 in base units. Increase it slightly.")
          ELSE IF inMintStr = outMintStr
          THEN abort("Select two different tokens.")
          ELSE quoteOrBuild
    /\ UNCHANGED <<publicKey, solBalance, trollBalance, trollDecimals,
                   trollAcctRef>>
    /\ UNCHANGED <<swImpl, amountStr, inMintStr, outMintStr, inputDecimals,
                   percent, quoteResponseMeta, lastTx, showModal>>
    /\ UNCHANGED <<pxVars, rtVars, wdVars, wsVars>>

\* fetchQuote settles: v1 goes through tryFetchQuoteSafe and returns silently
\* without a quote; v2 awaits fetchQuote() bare and reports a missing quote.
QuoteSettles ==
    /\ sw.pc = "quote"
    /\ \E o \in QuoteOutcomes :
          IF swImpl = "v1"
          THEN LET r == tryFetchQuoteSafe(o)
                   how == IF o.kind = "throw" THEN "threw"
                          ELSE IF o.quote = Null THEN "null" ELSE "resolved"
                   run == [sw EXCEPT !.quoteHow = how, !.quoteErr = o.error]
               IN /\ IF r.onError # Absent
                     THEN pushToast("error", r.onError, Absent)
                     ELSE NoToast
                  /\ IF r.kind = "throw"
                     THEN /\ sw' = [run EXCEPT !.pc = "rejected"]
                          /\ UNCHANGED swCalls
                     ELSE IF r.quote = Null
                     THEN /\ sw' = SwDone(run)
                          /\ UNCHANGED swCalls
                     ELSE /\ sw' = [run EXCEPT !.pc = "build",
                                               !.quote = r.quote]
                          /\ swCalls' = Append(swCalls, "fetchSwapTransaction")
          ELSE IF o.kind = "throw"
          THEN /\ sw' = [sw EXCEPT !.pc = "rejected", !.quoteHow = "threw"]
               /\ NoToast
               /\ UNCHANGED swCalls
          ELSE IF o.quote = Null
          THEN /\ pushToast("error", "No route found for this pair/amount.",
                            Absent)
               /\ sw' = SwDone([sw EXCEPT !.quoteHow = "null"])
               /\ UNCHANGED swCalls
          ELSE /\ NoToast
               /\ sw' = [sw EXCEPT !.pc = "build", !.quote = o.quote,
                                   !.quoteHow = "resolved"]
               /\ swCalls' = Append(swCalls, "fetchSwapTransaction")
    /\ UNCHANGED <<publicKey, solBalance, trollBalance, trollDecimals,
                   trollAcctRef>>
    /\ UNCHANGED <<swImpl, amountStr, inMintStr, outMintStr, inputDecimals,
                   percent, quoteResponseMeta, lastTx, showModal>>
    /\ UNCHANGED <<pxVars, rtVars, wdVars, wsVars>>

\* fetchSwapTransaction settles.
BuildSettles ==
    /\ sw.pc = "build"
    /\ \E res \in {"ok", "error"} :
          IF BuildFailed(res)
          THEN /\ pushToast("error",
                     IF swImpl = "v1"
                     THEN "Failed to build swap transaction. Try again."
                     ELSE "Failed to build swap transaction.", Absent)
               /\ sw' = SwDone([sw EXCEPT !.build = res])
               /\ UNCHANGED swCalls
          ELSE /\ NoToast
               /\ sw' = [sw EXCEPT !.pc = "send", !.build = res]
               /\ swCalls' = Append(swCalls, "sendTransaction")
    /\ UNCHANGED <<publicKey, solBalance, trollBalance, trollDecimals,
                   trollAcctRef>>
    /\ UNCHANGED <<swImpl, amountStr, inMintStr, outMintStr, inputDecimals,
                   percent, quoteResponseMeta, lastTx, showModal>>
    /\ UNCHANGED <<pxVars, rtVars, wdVars, wsVars>>

\* sendTransaction settles: with a transaction id, or rejected.
SendSettles ==
    /\ sw.pc = "send"
    /\ \/ \E txid \in TxIds :
            /\ lastTx' = txid
            /\ showModal' = TRUE
            /\ pushToast("success",
                   IF swImpl = "v1"
                   THEN "Swap sent! Click to view on Solscan."
                   ELSE "Swap sent! View on Solscan",
                   "https://solscan.io/tx/" \o txid)
            /\ sw' = [sw EXCEPT !.pc = "refresh", !.send = txid,
                                !.reported = TRUE]
            /\ swCalls' = Append(swCalls, "refresh")
       \/ /\ pushToast("error", "Swap failed to send.", Absent)
          /\ sw' = SwDone([sw EXCEPT !.send = "rejected"])
          /\ UNCHANGED <<swCalls, lastTx, showModal>>
    /\ UNCHANGED <<publicKey, solBalance, trollBalance, trollDecimals,
                   trollAcctRef>>
    /\ UNCHANGED <<swImpl, amountStr, inMintStr, outMintStr, inputDecimals,
                   percent, quoteResponseMeta>>
    /\ UNCHANGED <<pxVars, rtVars, wdVars, wsVars>>

\* refresh() settles; a rejection lands in the catch block of the send.
RefreshSettles ==
    /\ sw.pc = "refresh"
    /\ \/ /\ NoToast
          /\ sw' = [sw EXCEPT !.pc = "balances"]
          /\ swCalls' = Append(swCalls, "refreshBalances")
       \/ /\ pushToast("error", "Swap failed to send.", Absent)
          /\ sw' = SwDone(sw)
          /\ UNCHANGED swCalls
    /\ UNCHANGED <<publicKey, solBalance, trollBalance, trollDecimals,
                   trollAcctRef>>
    /\ UNCHANGED <<swImpl, amountStr, inMintStr, outMintStr, inputDecimals,
                   percent, quoteResponseMeta, lastTx, showModal>>
    /\ UNCHANGED <<pxVars, rtVars, wdVars, wsVars>>

\* refreshBalances() settles (it never rejects) and doSwap returns.
SwapBalancesSettle ==
    /\ sw.pc = "balances"
    /\ \E rpc \in BalanceRpcOutcomes : refreshBalances(publicKey, rpc)
    /\ sw' = SwDone(sw)
    /\ NoToast
    /\ UNCHANGED <<publicKey, swCalls>>
    /\ UNCHANGED <<swImpl, amountStr, inMintStr, outMintStr, inputDecimals,
                   percent, quoteResponseMeta, lastTx, showModal>>
    /\ UNCHANGED <<pxVars, rtVars, wdVars, wsVars>>

SwNext ==
    DoSwap \/ QuoteSettles \/ BuildSettles \/ SendSettles \/ RefreshSettles
    \/ SwapBalancesSettle

(***************************************************************************)
(*                         fetchQuoteWithRetry                             *)
(***************************************************************************)

\* Bound: the largest `tries` the function is called with (3 by default).
MaxTries == 3

Undefined == "<undefined>"

\* new Error('Quote failed after retries')
NewError == "Error: Quote failed after retries"

\* What a doFetch attempt can do: resolve to a quote or to a falsy value,
\* or throw (reject with) an error or with nothing.
DoFetchOutcomes ==
    {[kind |-> "resolve", val |-> v] : v \in {"quoteA", "quoteB", Null, ""}}
    \cup {[kind |-> "throw", val |-> v] : v \in {"errA", "errB", Undefined}}

\* A plausible slip: only null and undefined count as no quote.
TruthyNotNullish(q) == q \notin {Null, Undefined}

\* if (q)
Truthy(q) == q \notin {Null, Undefined, ""}

\* A plausible slip: the first error is kept.
CatchFirst(lastErr, e) == IF lastErr = Null THEN e ELSE lastErr

\* catch (e) { lastErr = e; }
Catch(lastErr, e) == e

\* A plausible slip: one attempt too many.
LoopGoesOnInclusive(i, tries) == i <= tries

\* i < tries
LoopGoesOn(i, tries) == i < tries

\* lastErr ?? new Error('Quote failed after retries')
OrNewError(lastErr) == IF lastErr \in {Null, Undefined} THEN NewError ELSE lastErr

IdleRt(tries, delayMs) ==
    [pc |-> "idle", tries |-> tries, delayMs |-> delayMs, i |-> 0,
     lastErr |-> Null, result |-> Null, thrown |-> Null]

RtEvent(ev, val, ms) == [ev |-> ev, val |-> val, ms |-> ms]

\* The head of the for loop: the next doFetch is called, or lastErr (or a
\* new Error) is thrown.
RtLoop(run, log) ==
    IF LoopGoesOn(run.i, run.tries)
    THEN /\ rt' = [run EXCEPT !.pc = "fetch"]
         /\ rtLog' = Append(log, RtEvent("call", "", 0))
    ELSE /\ rt' = [run EXCEPT !.pc = "threw", !.thrown = OrNewError(run.lastErr)]
         /\ rtLog' = log

\* fetchQuoteWithRetry is called.
FetchQuoteWithRetry ==
    /\ rt.pc = "idle"
    /\ RtLoop(rt, rtLog)
    /\ UNCHANGED <<pageVars, pxVars, swVars, wdVars, wsVars>>

\* The doFetch of the running attempt settles: a truthy result is returned;
\* otherwise the wait of delayMs * (i + 1) starts.
DoFetchSettles ==
    /\ rt.pc = "fetch"
    /\ \E o \in DoFetchOutcomes :
          LET log == Append(rtLog, RtEvent(o.kind, o.val, 0))
          IN IF o.kind = "resolve" /\ Truthy(o.val)
             THEN /\ rt' = [rt EXCEPT !.pc = "returned", !.result = o.val]
                  /\ rtLog' = log
             ELSE /\ rt' = [rt EXCEPT !.pc = "wait",
                                      !.lastErr = IF o.kind = "throw"
                                                  THEN Catch(@, o.val) ELSE @]
                  /\ rtLog' = Append(log, RtEvent("wait", "",
                                                  rt.delayMs * (rt.i + 1)))
    /\ UNCHANGED <<pageVars, pxVars, swVars, wdVars, wsVars>>

\* The timer of the wait fires: i++ and the head of the loop.
DelayElapses ==
    /\ rt.pc = "wait"
    /\ RtLoop([rt EXCEPT !.i = @ + 1], rtLog)
    /\ UNCHANGED <<pageVars, pxVars, swVars, wdVars, wsVars>>

RtNext == FetchQuoteWithRetry \/ DoFetchSettles \/ DelayElapses

(***************************************************************************)
(*                        THE WITHDRAWAL OF SOL                            *)
(***************************************************************************)

WdToStrs == {"", " destA ", "not-a-key"}

\* wdTo.trim(), for the strings of the model.
Trim(s) == IF s = " destA " THEN "destA" ELSE s

\* new PublicKey(s): the key, or Null when the constructor throws.
NewPublicKey(s) == IF s = "destA" THEN s ELSE Null

\* Math.floor(Math.max(0, parseFloat(wdSol || '0')) * LAMPORTS_PER_SOL):
\* NaN and Infinity stay what they are.
AmountLamports(s) ==
    LET n == parseFloat(OrZero(s))
    IN IF ~isFinite(n) THEN n
       ELSE Num(FloorScaled(IF n.m > 0 THEN n ELSE Zero, 9), 0)

NoFeeRpc == [blockhashOk |-> FALSE, fee |-> "none", value |-> 0]

\* What the two RPC calls of estimateSolTransferFee can do: getLatestBlockhash
\* throws; getFeeForMessage throws, resolves to nothing, to a value that is
\* not a number, or to a number.
FeeRpcOutcomes ==
    {NoFeeRpc,
     [blockhashOk |-> TRUE, fee |-> "throw", value |-> 0],
     [blockhashOk |-> TRUE, fee |-> "null", value |-> 0],
     [blockhashOk |-> TRUE, fee |-> "notNumber", value |-> 0],
     [blockhashOk |-> TRUE, fee |-> "number", value |-> 0],
     [blockhashOk |-> TRUE, fee |-> "number", value |-> 5000]}

Returns(v) == [kind |-> "return", value |-> v]
Throws == [kind |-> "throw", value |-> <<>>]

\* A plausible slip: the RPC calls are made outside the try block.
estimateSolTransferFeeNoCatch(pk, rpc) ==
    IF pk = Null THEN Returns(<<>>)
    ELSE IF ~rpc.blockhashOk \/ rpc.fee = "throw" THEN Throws
    ELSE IF rpc.fee = "number" THEN Returns(<<rpc.value>>)
    ELSE Returns(<<>>)

\* estimateSolTransferFee: the fee <<n>>, or null <<>>; every RPC call is
\* inside its try block.
estimateSolTransferFee(pk, rpc) ==
    IF pk = Null THEN Returns(<<>>)
    ELSE IF ~rpc.blockhashOk THEN Returns(<<>>)
    ELSE IF rpc.fee = "throw" THEN Returns(<<>>)
    ELSE IF rpc.fee = "number" THEN Returns(<<rpc.value>>)
    ELSE Returns(<<>>)

\* (lamports / LAMPORTS_PER_SOL).toFixed(6)
ToFixed6(lamports) ==
    LET micro == (lamports + 500) \div 1000
    IN ToString(micro \div 1000000) \o "." \o Digits(micro % 1000000, 6)

IdleWd ==
    [pc |-> "idle", first |-> 1, pk |-> Null, wdTo |-> "", wdSol |-> "",
     have |-> 0, cached |-> <<>>, rpc |-> NoFeeRpc, fee |-> <<>>]

IdleRf == [pc |-> "idle", pk |-> Null]

WdDone(run) == [run EXCEPT !.pc = "done"]

\* A plausible slip: the flag is reset in the catch block only, so that a
\* send that went through leaves it as it was.
FinallyForgotten(sending) == sending

\* finally { setWdSending(false) }
Finally(sending) == FALSE

\* A plausible slip: the address typed is kept after a withdrawal.
WdFormKeepsAddress(to) ==
    [wdOpen |-> FALSE, wdTo |-> to, wdSol |-> "0.1", wdFeeLamports |-> <<>>]

\* The form after a withdrawal that was sent: setWdOpen(false),
\* setWdTo(''), setWdSol('0.1'), setWdFeeLamports(null).
WdFormReset(to) ==
    [wdOpen |-> FALSE, wdTo |-> "", wdSol |-> "0.1", wdFeeLamports |-> <<>>]

\* A plausible slip: the fee buffer is left out of what is needed.
NeedNoBuffer(amountLamports, feeLamports) == amountLamports + feeLamports

\* need = amountLamports + feeLamports + buffer
Need(amountLamports, feeLamports) ==
    amountLamports + feeLamports + SolFeeBufferLamports

\* sendWithdrawSol from the balance check on, the fee being known: either
\* the 'Not enough SOL' toast and the return, or setWdSending(true) and the
\* call of getLatestBlockhash.
WdCheckBalance(run, calls) ==
    LET need == Need(AmountLamports(run.wdSol).m, run.fee[1])
    IN IF run.have < need
       THEN /\ pushToast("error",
                   "Not enough SOL to cover amount + fee. Need ~ "
                   \o ToFixed6(need) \o " SOL total.", Absent)
            /\ wd' = WdDone(run)
            /\ wdCalls' = calls
            /\ UNCHANGED wdSending
       ELSE /\ NoToast
            /\ wdSending' = TRUE
            /\ wd' = [run EXCEPT !.pc = "blockhash"]
            /\ wdCalls' = Append(calls, "getLatestBlockhash")

\* sendWithdrawSol, from the click on 'Confirm & Send' (the button is
\* disabled while wdEstimating or wdSending) to its first await.
SendWithdrawSol ==
    /\ wd.pc \in {"idle", "done", "rejected"}
    /\ ~wdEstimating /\ ~wdSending
    /\ toastIdRef <= MaxToasts
    /\ LET run == [IdleWd EXCEPT !.first = toastIdRef, !.pk = publicKey,
                                 !.wdTo = wdTo, !.wdSol = wdSol,
                                 !.have = solBalance,
                                 !.cached = wdFeeLamports,
                                 !.fee = wdFeeLamports]
           toPk == NewPublicKey(Trim(wdTo))
           amountLamports == AmountLamports(wdSol)
           abort(message) == /\ pushToast("error", message, Absent)
                             /\ wd' = WdDone(run)
                             /\ wdCalls' = <<>>
                             /\ UNCHANGED wdSending
       IN IF publicKey = Null THEN abort("Connect your wallet first.")
          ELSE IF toPk = Null THEN abort("Invalid Solana address.")
          ELSE IF ~isFinite(amountLamports) \/ amountLamports.m <= 0
          THEN abort("Enter a valid SOL amount.")
          ELSE IF wdFeeLamports = <<>>
          THEN /\ NoToast
               /\ wd' = [run EXCEPT !.pc = "estimate"]
               /\ wdCalls' = <<"estimateSolTransferFee">>
               /\ UNCHANGED wdSending
          ELSE WdCheckBalance(run, <<>>)
    /\ UNCHANGED <<publicKey, solBalance, trollBalance, trollDecimals,
                   trollAcctRef>>
    /\ UNCHANGED <<wdOpen, wdTo, wdSol, wdFeeLamports, wdEstimating, rf>>
    /\ UNCHANGED <<pxVars, rtVars, swVars, wsVars>>

\* The estimate of sendWithdrawSol settles.
WdEstimateSettles ==
    /\ wd.pc = "estimate"
    /\ \E rpc \in FeeRpcOutcomes :
          LET r == estimateSolTransferFee(wd.pk, rpc)
              run == [wd EXCEPT !.rpc = rpc, !.fee = r.value]
          IN IF r.kind = "throw"
             THEN /\ wd' = [run EXCEPT !.pc = "rejected"]
                  /\ NoToast
                  /\ UNCHANGED <<wdSending, wdCalls>>
             ELSE IF r.value = <<>>
             THEN /\ pushToast("error",
                        "Could not estimate network fee. Try again.", Absent)
                  /\ wd' = WdDone(run)
                  /\ UNCHANGED <<wdSending, wdCalls>>
             ELSE WdCheckBalance(run, wdCalls)
    /\ UNCHANGED <<publicKey, solBalance, trollBalance, trollDecimals,
                   trollAcctRef>>
    /\ UNCHANGED <<wdOpen, wdTo, wdSol, wdFeeLamports, wdEstimating, rf>>
    /\ UNCHANGED <<pxVars, rtVars, swVars, wsVars>>

\* getLatestBlockhash of sendWithdrawSol settles; a rejection goes to the
\* catch block, and finally wdSending is reset.
WdBlockhashSettles ==
    /\ wd.pc = "blockhash"
    /\ \/ /\ NoToast
          /\ wd' = [wd EXCEPT !.pc = "send"]
          /\ wdCalls' = Append(wdCalls, "sendTransaction")
          /\ UNCHANGED wdSending
       \/ /\ pushToast("error", "Withdraw failed. Please try again.", Absent)
          /\ wdSending' = Finally(wdSending)
          /\ wd' = WdDone(wd)
          /\ UNCHANGED wdCalls
    /\ UNCHANGED <<publicKey, solBalance, trollBalance, trollDecimals,
                   trollAcctRef>>
    /\ UNCHANGED <<wdOpen, wdTo, wdSol, wdFeeLamports, wdEstimating, rf>>
    /\ UNCHANGED <<pxVars, rtVars, swVars, wsVars>>

\* sendTransaction of sendWithdrawSol settles.
WdSendSettles ==
    /\ wd.pc = "send"
    /\ \/ \E sig \in TxIds :
            /\ pushToast("success", "Withdrawal sent! View on Solscan.",
                         "https://solscan.io/tx/" \o sig)
            /\ LET form == WdFormReset(wdTo)
               IN /\ wdOpen' = form.wdOpen
                  /\ wdTo' = form.wdTo
                  /\ wdSol' = form.wdSol
                  /\ wdFeeLamports' = form.wdFeeLamports
            /\ wd' = [wd EXCEPT !.pc = "balances"]
            /\ wdCalls' = Append(wdCalls, "refreshBalances")
            /\ UNCHANGED wdSending
       \/ /\ pushToast("error", "Withdraw failed. Please try again.", Absent)
          /\ wdSending' = Finally(wdSending)
          /\ wd' = WdDone(wd)
          /\ UNCHANGED <<wdCalls, wdOpen, wdTo, wdSol, wdFeeLamports>>
    /\ UNCHANGED <<publicKey, solBalance, trollBalance, trollDecimals,
                   trollAcctRef>>
    /\ UNCHANGED <<wdEstimating, rf>>
    /\ UNCHANGED <<pxVars, rtVars, swVars, wsVars>>

\* refreshBalances of sendWithdrawSol settles; finally wdSending is reset.
WdBalancesSettle ==
    /\ wd.pc = "balances"
    /\ \E rpc \in BalanceRpcOutcomes : refreshBalances(wd.pk, rpc)
    /\ wdSending' = Finally(wdSending)
    /\ wd' = WdDone(wd)
    /\ NoToast
    /\ UNCHANGED <<publicKey, wdCalls>>
    /\ UNCHANGED <<wdOpen, wdTo, wdSol, wdFeeLamports, wdEstimating, rf>>
    /\ UNCHANGED <<pxVars, rtVars, swVars, wsVars>>

\* refreshWithdrawFee up to its await: the fee is forgotten first.
RefreshWithdrawFee ==
    /\ rf.pc = "idle"
    /\ wdFeeLamports' = <<>>
    /\ LET lam == AmountLamports(wdSol)
       IN IF \/ publicKey = Null
             \/ ~isFinite(lam) \/ lam.m <= 0
             \/ NewPublicKey(Trim(wdTo)) = Null
          THEN UNCHANGED <<wdEstimating, rf>>
          ELSE /\ wdEstimating' = TRUE
               /\ rf' = [pc |-> "estimate", pk |-> publicKey]
    /\ UNCHANGED <<wdOpen, wdTo, wdSol, wdSending, wd, wdCalls>>
    /\ UNCHANGED <<pageVars, pxVars, rtVars, swVars, wsVars>>

\* The estimate of refreshWithdrawFee settles.
RefreshFeeSettles ==
    /\ rf.pc = "estimate"
    /\ \E rpc \in FeeRpcOutcomes :
          LET r == estimateSolTransferFee(rf.pk, rpc)
          IN IF r.kind = "throw"
             THEN /\ rf' = IdleRf
                  /\ UNCHANGED <<wdFeeLamports, wdEstimating>>
             ELSE /\ wdFeeLamports' = r.value
                  /\ wdEstimating' = FALSE
                  /\ rf' = IdleRf
    /\ UNCHANGED <<wdOpen, wdTo, wdSol, wdSending, wd, wdCalls>>
    /\ UNCHANGED <<pageVars, pxVars, rtVars, swVars, wsVars>>

WdNext ==
    SendWithdrawSol \/ WdEstimateSettles \/ WdBlockhashSettles
    \/ WdSendSettles \/ WdBalancesSettle \/ RefreshWithdrawFee
    \/ RefreshFeeSettles

(***************************************************************************)
(*                     THE TOASTS AND THEIR TIMERS                         *)
(***************************************************************************)

\* dismissToast(id), from the Close button of a toast that is shown; the
\* timer of the toast goes on.
dismissToast ==
    /\ \E i \in 1..Len(toasts) : toasts' = RemoveToast(toasts, toasts[i].id)
    /\ UNCHANGED <<publicKey, toastIdRef, toastTimers, pushed, solBalance,
                   trollBalance, trollDecimals, trollAcctRef>>
    /\ UNCHANGED <<pxVars, swVars, rtVars, wdVars, wsVars>>

\* The callback of the setTimeout of pushToast, when its delay is over.
ToastTimeout ==
    /\ \E tm \in toastTimers :
          /\ tm.ms = 0
          /\ toasts' = RemoveToast(toasts, tm.id)
          /\ toastTimers' = toastTimers \ {tm}
    /\ UNCHANGED <<publicKey, toastIdRef, pushed, solBalance,
                   trollBalance, trollDecimals, trollAcctRef>>
    /\ UNCHANGED <<pxVars, swVars, rtVars, wdVars, wsVars>>

\* Time passes, by a step or up to the next timer that is due; a timer that
\* is due fires before time goes on.
TimePasses ==
    /\ toastTimers # {}
    /\ \A tm \in toastTimers : tm.ms > 0
    /\ LET next == CHOOSE m \in {tm.ms : tm \in toastTimers} :
                      \A tm \in toastTimers : m <= tm.ms
           d == IF next < ToastTick THEN next ELSE ToastTick
       IN toastTimers' = {[tm EXCEPT !.ms = @ - d] : tm \in toastTimers}
    /\ UNCHANGED <<publicKey, toasts, toastIdRef, pushed, solBalance,
                   trollBalance, trollDecimals, trollAcctRef>>
    /\ UNCHANGED <<pxVars, swVars, rtVars, wdVars, wsVars>>

\* Clicks on 'Confirm & Send' as the source of toasts, the Close buttons,
\* the timers.
ToastNext == SendWithdrawSol \/ dismissToast \/ ToastTimeout \/ TimePasses

(***************************************************************************)
(*                          THE AMOUNT FORM                                *)
(***************************************************************************)

\* base, computed from the state at hand.
SliderBase == BaseOf(inMintStr, solBalance, trollBalance)

\* <<q, r>> with x * p = q * den + r and r < den, for x < den, by p additions
\* of x (no product is formed).
RECURSIVE MulDivMod(_, _, _)
MulDivMod(x, p, den) ==
    IF p = 0 THEN <<0, 0>>
    ELSE LET qr == MulDivMod(x, p - 1, den)
             sum == qr[2] + x
         IN IF sum >= den THEN <<qr[1] + 1, sum - den>> ELSE <<qr[1], sum>>

\* Math.round(base > 0 ? clamp((v / base) * 100, 0, 100) : 0); a base is
\* below 2 * 10^9 lamports, so a v of 2 SOL or more is above it.
PercentOf(v, base) ==
    IF base.value <= 0 THEN Zero
    ELSE IF v.kind = "nan" THEN NaN
    ELSE IF v.kind = "inf" THEN Num(100, 0)
    ELSE IF v.m <= 0 THEN Zero
    ELSE LET k == v.e + base.scale
         IN IF k > 9 \/ (k = 9 /\ v.m >= 2) THEN Num(100, 0)
            ELSE LET num == IF k >= 0 THEN v.m * Pow10(k) ELSE v.m
                     den == IF k >= 0 THEN base.value
                            ELSE base.value * Pow10(0 - k)
                     tens == MulDivMod(num, 10, den)
                     units == MulDivMod(tens[2], 10, den)
                     q == 10 * tens[1] + units[1]
                 IN IF num >= den THEN Num(100, 0)
                    ELSE Num(q + (IF 2 * units[2] >= den THEN 1 ELSE 0), 0)

\* The screen after a render: a render whose useMemo throws takes the
\* screen down.
Rendered(str, d) ==
    IF AmountAtomicOf(str, d).kind = "throw" THEN "gone" ELSE "yes"

\* connected of useWallet(): a wallet is connected when it has a key.
Connected == publicKey # Null

\* The dependencies of the slider effect.
SliderDeps ==
    <<percent, Connected, inMintStr, solBalance, trollBalance, inputDecimals>>

\* The slider effect after a handler that left written in the amount field:
\* it runs after a render that went through, when one of its dependencies
\* changed, and writes only while a wallet is connected.
SliderEffect(written) ==
    amountStr' =
        IF mounted' = "yes" /\ Connected' /\ SliderDeps' # SliderDeps
        THEN SliderAmount(BaseOf(inMintStr', solBalance', trollBalance'),
                          percent', DpOf(inputDecimals'))
        ELSE written

\* onChange of the amount field, the render that follows, and the slider
\* effect.
SetAmountStr ==
    /\ mounted = "yes"
    /\ UNCHANGED <<swImpl, inMintStr, outMintStr, inputDecimals,
                   quoteResponseMeta, sw, swCalls, lastTx, showModal>>
    /\ UNCHANGED <<WS, fastPollRef, fx, listeners, timers, nextHandle>>
    /\ UNCHANGED <<pageVars, pxVars, rtVars, wdVars>>
    /\ \E value \in TypedStrs :
          /\ percent' = PercentOf(parseFloat(OrZero(value)), SliderBase)
          /\ mounted' = Rendered(value, inputDecimals)
          /\ SliderEffect(value)

\* The effects of a change of the mints: the input decimals are brought in
\* sync (9 for SOL, else what getMintDecimals finds, or nothing when it
\* rejects), the balances are refreshed, the screen renders, and the slider
\* effect runs.
MintEffects ==
    /\ IF inMintStr' = "SOL" THEN inputDecimals' = 9
       ELSE \E d \in MintDecimals \cup {inputDecimals} : inputDecimals' = d
    /\ \E rpc \in BalanceRpcOutcomes : refreshBalances(publicKey, rpc)
    /\ mounted' = Rendered(amountStr, inputDecimals')

\* onChange of the 'From' select.
SelectInMint ==
    /\ mounted = "yes"
    /\ \E value \in {"SOL", "TROLL"} :
          /\ inMintStr' = value
          /\ percent' = Zero
    /\ MintEffects
    /\ UNCHANGED <<swImpl, outMintStr, quoteResponseMeta, sw,
                   swCalls, lastTx, showModal>>
    /\ UNCHANGED <<publicKey, toasts, toastIdRef, toastTimers, pushed>>
    /\ UNCHANGED <<WS, fastPollRef, fx, listeners, timers, nextHandle>>
    /\ UNCHANGED <<pxVars, rtVars, wdVars>>
    /\ SliderEffect(amountStr)

\* onChange of the 'To' select.
SelectOutMint ==
    /\ mounted = "yes"
    /\ \E value \in {"SOL", "TROLL"} : outMintStr' = value
    /\ \E rpc \in BalanceRpcOutcomes : refreshBalances(publicKey, rpc)
    /\ UNCHANGED <<swImpl, inMintStr, inputDecimals, percent,
                   quoteResponseMeta, sw, swCalls, lastTx, showModal>>
    /\ UNCHANGED <<publicKey, toasts, toastIdRef, toastTimers, pushed>>
    /\ UNCHANGED <<pxVars, rtVars, wdVars, wsVars>>
    /\ SliderEffect(amountStr)

\* flip: the two mints change places.
flip ==
    /\ mounted = "yes"
    /\ inMintStr' = outMintStr
    /\ outMintStr' = inMintStr
    /\ percent' = Zero
    /\ MintEffects
    /\ UNCHANGED <<swImpl, quoteResponseMeta, sw, swCalls,
                   lastTx, showModal>>
    /\ UNCHANGED <<publicKey, toasts, toastIdRef, toastTimers, pushed>>
    /\ UNCHANGED <<WS, fastPollRef, fx, listeners, timers, nextHandle>>
    /\ UNCHANGED <<pxVars, rtVars, wdVars>>
    /\ SliderEffect(amountStr)

\* The positions of the slider and the chips that are tried.
SliderPercents == {0, 1, 25, 50, 100}

\* onChange of the slider and onClick of a chip: setPercent(p), the render,
\* and the slider effect.
SetPercent ==
    /\ mounted = "yes"
    /\ \E p \in SliderPercents : percent' = Num(p, 0)
    /\ UNCHANGED <<swImpl, inMintStr, outMintStr, inputDecimals,
                   quoteResponseMeta, sw, swCalls, lastTx, showModal>>
    /\ UNCHANGED <<WS, mounted, fastPollRef, fx, listeners, timers,
                   nextHandle>>
    /\ UNCHANGED <<pageVars, pxVars, rtVars, wdVars>>
    /\ SliderEffect(amountStr)

\* onClick of MAX: setAmountStr(base as text), setPercent(100), the render,
\* and the slider effect.
MaxClick ==
    /\ mounted = "yes"
    /\ percent' = Num(100, 0)
    /\ mounted' = Rendered(MaxAmount(SliderBase, DpOf(inputDecimals)),
                           inputDecimals)
    /\ UNCHANGED <<swImpl, inMintStr, outMintStr, inputDecimals,
                   quoteResponseMeta, sw, swCalls, lastTx, showModal>>
    /\ UNCHANGED <<WS, fastPollRef, fx, listeners, timers, nextHandle>>
    /\ UNCHANGED <<pageVars, pxVars, rtVars, wdVars>>
    /\ SliderEffect(MaxAmount(SliderBase, DpOf(inputDecimals)))

AmountNext == SetAmountStr \/ SelectInMint \/ SelectOutMint \/ flip

SliderNext == AmountNext \/ SetPercent \/ MaxClick

(***************************************************************************)
(*             THE WEBSOCKET SUBSCRIPTION EFFECT AND ITS FALLBACK          *)
(***************************************************************************)

\* Bound: how many times the effect runs (mount and changes of its deps).
MaxEffectRuns == 2

Range(seq) == {seq[i] : i \in 1..Len(seq)}

\* The locals of one run of the effect, the position of its async body, and
\* what the run has created so far (threw, subs, timer: history).
NewRun(pk) ==
    [pk |-> pk, pc |-> "subSol", solSubId |-> <<>>, trollSubId |-> <<>>,
     wsFailed |-> FALSE, pendingOk |-> TRUE, pending |-> <<>>,
     cleaned |-> FALSE, threw |-> FALSE, subs |-> {}, timer |-> <<>>]

\* if (!WS || !publicKey) return;
SkippedRun(pk) == [NewRun(pk) EXCEPT !.pc = "skipped"]

\* A plausible slip: the fast poll is started whenever the setup failed.
StartsFastPollUnguarded(wsFailed, ref) == wsFailed

\* if (wsFailed && fastPollRef.current === null)
StartsFastPoll(wsFailed, ref) == wsFailed /\ ref = <<>>

WsSet(r, run, L, T, F, N) ==
    /\ fx' = [fx EXCEPT ![r] = run]
    /\ listeners' = L
    /\ timers' = T
    /\ fastPollRef' = F
    /\ nextHandle' = N

\* The end of the async body: the fast poll is started, or not.
WsFinal(r, run) ==
    LET end == [run EXCEPT !.pc = "done", !.pending = <<>>]
    IN IF StartsFastPoll(end.wsFailed, fastPollRef)
       THEN WsSet(r, [end EXCEPT !.timer = <<nextHandle>>], listeners,
                  timers \cup {nextHandle}, <<nextHandle>>, nextHandle + 1)
       ELSE WsSet(r, end, listeners, timers, fastPollRef, nextHandle)

\* connection.onAccountChange(trollAcctRef.current, ...) is called: the
\* listener is registered, or the call throws.
CallTrollSub(r, run) ==
    \E ok \in BOOLEAN :
       IF ok
       THEN WsSet(r, [run EXCEPT !.pc = "subTroll", !.pendingOk = TRUE,
                                 !.pending = <<nextHandle>>,
                                 !.subs = @ \cup {nextHandle}],
                  listeners \cup {nextHandle}, timers, fastPollRef,
                  nextHandle + 1)
       ELSE WsSet(r, [run EXCEPT !.pc = "subTroll", !.pendingOk = FALSE,
                                 !.pending = <<>>, !.threw = TRUE],
                  listeners, timers, fastPollRef, nextHandle)

\* The cleanup returned by a run of the effect.
CleanedRun(run) ==
    IF run.pc = "skipped" THEN run ELSE [run EXCEPT !.cleaned = TRUE]

CleanedListeners(run) ==
    IF run.pc = "skipped" THEN listeners
    ELSE listeners \ (Range(run.solSubId) \cup Range(run.trollSubId))

CleanedTimers(run) ==
    IF run.pc = "skipped" THEN timers ELSE timers \ Range(fastPollRef)

CleanedRef(run) == IF run.pc = "skipped" THEN fastPollRef ELSE <<>>

\* The body of the effect up to its first await, after the cleanup of the
\* previous run (if any) left runs, L, T and F.
StartEffect(pk, runs, L, T, F) ==
    /\ timers' = T
    /\ fastPollRef' = F
    /\ IF ~WS \/ pk = Null
       THEN /\ fx' = Append(runs, SkippedRun(pk))
            /\ listeners' = L
            /\ UNCHANGED nextHandle
       ELSE \E ok \in BOOLEAN :
              IF ok
              THEN /\ fx' = Append(runs,
                               [NewRun(pk) EXCEPT !.pending = <<nextHandle>>,
                                                  !.subs = {nextHandle}])
                   /\ listeners' = L \cup {nextHandle}
                   /\ nextHandle' = nextHandle + 1
              ELSE /\ fx' = Append(runs,
                               [NewRun(pk) EXCEPT !.pendingOk = FALSE,
                                                  !.threw = TRUE])
                   /\ listeners' = L
                   /\ UNCHANGED nextHandle

\* The screen is mounted: the effect runs for the first time.
Mount ==
    /\ mounted = "no"
    /\ mounted' = "yes"
    /\ StartEffect(publicKey, fx, listeners, timers, fastPollRef)
    /\ UNCHANGED <<WS, pageVars, pxVars, rtVars, swVars, wdVars>>

\* A dependency of the effect changes (the wallet connects, disconnects or
\* hands out a new connection): the cleanup of the last run, then the effect.
DepsChange ==
    /\ mounted = "yes"
    /\ Len(fx) < MaxEffectRuns
    /\ \E pk \in {Null, "walletA"} :
          LET last == fx[Len(fx)]
          IN /\ publicKey' = pk
             /\ StartEffect(pk, [fx EXCEPT ![Len(fx)] = CleanedRun(last)],
                            CleanedListeners(last), CleanedTimers(last),
                            CleanedRef(last))
    /\ UNCHANGED <<WS, mounted>>
    /\ UNCHANGED <<toasts, toastIdRef, toastTimers, pushed, solBalance,
                   trollBalance, trollDecimals, trollAcctRef>>
    /\ UNCHANGED <<pxVars, rtVars, swVars, wdVars>>

\* The screen is unmounted: the cleanup of the last run.
Unmount ==
    /\ mounted = "yes"
    /\ mounted' = "gone"
    /\ LET last == fx[Len(fx)]
       IN /\ fx' = [fx EXCEPT ![Len(fx)] = CleanedRun(last)]
          /\ listeners' = CleanedListeners(last)
          /\ timers' = CleanedTimers(last)
          /\ fastPollRef' = CleanedRef(last)
    /\ UNCHANGED <<WS, nextHandle, pageVars, pxVars, rtVars, swVars, wdVars>>

\* The await of the SOL subscription resumes: solSubId is assigned and the
\* body goes on to the TROLL account, or the catch block sets wsFailed.
SolSubSettles ==
    \E r \in 1..Len(fx) :
       /\ fx[r].pc = "subSol"
       /\ IF ~fx[r].pendingOk
          THEN WsFinal(r, [fx[r] EXCEPT !.wsFailed = TRUE])
          ELSE LET run == [fx[r] EXCEPT !.solSubId = fx[r].pending,
                                        !.pending = <<>>]
               IN IF trollAcctRef = Null
                  THEN WsSet(r, [run EXCEPT !.pc = "refresh"], listeners,
                             timers, fastPollRef, nextHandle)
                  ELSE CallTrollSub(r, run)
       /\ UNCHANGED <<WS, mounted, pageVars, pxVars, rtVars, swVars, wdVars>>

\* await refreshBalances() of the effect resumes.
WsRefreshSettles ==
    \E r \in 1..Len(fx) :
       /\ fx[r].pc = "refresh"
       /\ \E rpc \in BalanceRpcOutcomes : refreshBalances(fx[r].pk, rpc)
       /\ IF trollAcctRef' # Null
          THEN CallTrollSub(r, fx[r])
          ELSE WsFinal(r, fx[r])
       /\ UNCHANGED <<WS, mounted, publicKey, toasts, toastIdRef,
                      toastTimers, pushed>>
       /\ UNCHANGED <<pxVars, rtVars, swVars, wdVars>>

\* The await of the TROLL subscription resumes.
TrollSubSettles ==
    \E r \in 1..Len(fx) :
       /\ fx[r].pc = "subTroll"
       /\ IF ~fx[r].pendingOk
          THEN WsFinal(r, [fx[r] EXCEPT !.wsFailed = TRUE])
          ELSE WsFinal(r, [fx[r] EXCEPT !.trollSubId = fx[r].pending])
       /\ UNCHANGED <<WS, mounted, pageVars, pxVars, rtVars, swVars, wdVars>>

WsNext ==
    Mount \/ DepsChange \/ Unmount \/ SolSubSettles \/ WsRefreshSettles
    \/ TrollSubSettles

(***************************************************************************)
(*                           THE SPECIFICATIONS                            *)
(***************************************************************************)

\* The proxy, serving requests.
ProxyInit ==
    /\ pxImpl \in {"route", "buffered"}
    /\ pxReq = [kind |-> "none"]
    /\ pxSent = NotSent /\ pxUp = NotCalled /\ pxResp = NoResponse
    /\ publicKey = Null /\ toasts = <<>> /\ toastIdRef = 1
    /\ toastTimers = {} /\ pushed = <<>>
    /\ solBalance = 0 /\ trollBalance = 0 /\ trollDecimals = 9
    /\ trollAcctRef = Null
    /\ swImpl = "v1" /\ amountStr = "0.1" /\ inMintStr = "SOL"
    /\ outMintStr = "TROLL" /\ inputDecimals = 9
    /\ percent = Zero
    /\ quoteResponseMeta = Null /\ sw = IdleSw /\ swCalls = <<>>
    /\ lastTx = Null /\ showModal = FALSE
    /\ rt = IdleRt(3, 450) /\ rtLog = <<>>
    /\ wdOpen = FALSE /\ wdTo = "" /\ wdSol = "0.1" /\ wdFeeLamports = <<>>
    /\ wdEstimating = FALSE /\ wdSending = FALSE /\ wd = IdleWd
    /\ wdCalls = <<>> /\ rf = IdleRf
    /\ WS = FALSE /\ mounted = "yes" /\ fastPollRef = <<>> /\ fx = <<>>
    /\ listeners = {}
    /\ timers = {} /\ nextHandle = 1

SpecProxy == ProxyInit /\ [][PxNext]_vars

\* The page with a form filled in some way, one doSwap at a time.
SwapInit ==
    /\ pxImpl = "route" /\ pxReq = [kind |-> "none"]
    /\ pxSent = NotSent /\ pxUp = NotCalled /\ pxResp = NoResponse
    /\ publicKey \in {Null, "walletA"}
    /\ toasts = <<>> /\ toastIdRef = 1
    /\ toastTimers = {} /\ pushed = <<>>
    /\ solBalance = 0 /\ trollBalance = 0 /\ trollDecimals = 9
    /\ trollAcctRef = Null
    /\ swImpl \in {"v1", "v2"}
    /\ amountStr \in AmountStrs
    /\ inMintStr \in {"SOL", "TROLL"}
    /\ outMintStr \in {"SOL", "TROLL"}
    /\ inputDecimals \in {0, 9}
    /\ percent = Zero
    /\ quoteResponseMeta \in {Null, "quoteC"}
    /\ sw = IdleSw /\ swCalls = <<>>
    /\ lastTx = Null /\ showModal = FALSE
    /\ rt = IdleRt(3, 450) /\ rtLog = <<>>
    /\ wdOpen = FALSE /\ wdTo = "" /\ wdSol = "0.1" /\ wdFeeLamports = <<>>
    /\ wdEstimating = FALSE /\ wdSending = FALSE /\ wd = IdleWd
    /\ wdCalls = <<>> /\ rf = IdleRf
    /\ WS = FALSE /\ mounted = "yes" /\ fastPollRef = <<>> /\ fx = <<>>
    /\ listeners = {}
    /\ timers = {} /\ nextHandle = 1

SpecSwap == SwapInit /\ [][SwNext]_vars

\* The page with the withdraw form filled in some way.
WithdrawInit ==
    /\ pxImpl = "route" /\ pxReq = [kind |-> "none"]
    /\ pxSent = NotSent /\ pxUp = NotCalled /\ pxResp = NoResponse
    /\ publicKey \in {Null, "walletA"}
    /\ toasts = <<>> /\ toastIdRef = 1
    /\ toastTimers = {} /\ pushed = <<>>
    /\ solBalance \in {0, 104004999, 104005000, 1000000000}
    /\ trollBalance = 0 /\ trollDecimals = 9
    /\ trollAcctRef = Null
    /\ swImpl = "v1" /\ amountStr = "0.1" /\ inMintStr = "SOL"
    /\ outMintStr = "TROLL" /\ inputDecimals = 9
    /\ percent = Zero
    /\ quoteResponseMeta = Null /\ sw = IdleSw /\ swCalls = <<>>
    /\ lastTx = Null /\ showModal = FALSE
    /\ rt = IdleRt(3, 450) /\ rtLog = <<>>
    /\ wdOpen = TRUE
    /\ wdTo \in WdToStrs
    /\ wdSol \in WdSolStrs
    /\ wdFeeLamports = <<>>
    /\ wdEstimating = FALSE /\ wdSending = FALSE /\ wd = IdleWd
    /\ wdCalls = <<>> /\ rf = IdleRf
    /\ WS = FALSE /\ mounted = "yes" /\ fastPollRef = <<>> /\ fx = <<>>
    /\ listeners = {}
    /\ timers = {} /\ nextHandle = 1

SpecWithdraw == WithdrawInit /\ [][WdNext]_vars

\* The page before the screen is mounted.
WsInit ==
    /\ pxImpl = "route" /\ pxReq = [kind |-> "none"]
    /\ pxSent = NotSent /\ pxUp = NotCalled /\ pxResp = NoResponse
    /\ publicKey \in {Null, "walletA"}
    /\ toasts = <<>> /\ toastIdRef = 1
    /\ toastTimers = {} /\ pushed = <<>>
    /\ solBalance = 0 /\ trollBalance = 0 /\ trollDecimals = 9
    /\ trollAcctRef = Null
    /\ swImpl \in {"v1", "v2"} /\ amountStr = "0.1" /\ inMintStr = "SOL"
    /\ outMintStr = "TROLL" /\ inputDecimals = 9
    /\ percent = Zero
    /\ quoteResponseMeta = Null /\ sw = IdleSw /\ swCalls = <<>>
    /\ lastTx = Null /\ showModal = FALSE
    /\ rt = IdleRt(3, 450) /\ rtLog = <<>>
    /\ wdOpen = FALSE /\ wdTo = "" /\ wdSol = "0.1"
    /\ wdFeeLamports = <<>>
    /\ wdEstimating = FALSE /\ wdSending = FALSE /\ wd = IdleWd
    /\ wdCalls = <<>> /\ rf = IdleRf
    /\ WS \in BOOLEAN /\ mounted = "no" /\ fastPollRef = <<>> /\ fx = <<>>
    /\ listeners = {}
    /\ timers = {} /\ nextHandle = 1

SpecWs == WsInit /\ [][WsNext]_vars

\* The screen as it is first rendered, without wallet.
AmountInit ==
    /\ pxImpl = "route" /\ pxReq = [kind |-> "none"]
    /\ pxSent = NotSent /\ pxUp = NotCalled /\ pxResp = NoResponse
    /\ publicKey = Null
    /\ toasts = <<>> /\ toastIdRef = 1
    /\ toastTimers = {} /\ pushed = <<>>
    /\ solBalance = 0 /\ trollBalance = 0 /\ trollDecimals = 9
    /\ trollAcctRef = Null
    /\ swImpl \in {"v1", "v2"} /\ amountStr = "0.1" /\ inMintStr = "SOL"
    /\ outMintStr = "TROLL" /\ inputDecimals = 9
    /\ percent = Zero
    /\ quoteResponseMeta = Null /\ sw = IdleSw /\ swCalls = <<>>
    /\ lastTx = Null /\ showModal = FALSE
    /\ rt = IdleRt(3, 450) /\ rtLog = <<>>
    /\ wdOpen = FALSE /\ wdTo = "" /\ wdSol = "0.1"
    /\ wdFeeLamports = <<>>
    /\ wdEstimating = FALSE /\ wdSending = FALSE /\ wd = IdleWd
    /\ wdCalls = <<>> /\ rf = IdleRf
    /\ WS = FALSE /\ mounted = "yes" /\ fastPollRef = <<>> /\ fx = <<>>
    /\ listeners = {}
    /\ timers = {} /\ nextHandle = 1

SpecAmount == AmountInit /\ [][AmountNext]_vars

\* The screen after its first effects: without wallet, or with a wallet
\* whose balances have been read and with the '0' the slider effect wrote
\* for the slider at 0.
SliderInit ==
    /\ pxImpl = "route" /\ pxReq = [kind |-> "none"]
    /\ pxSent = NotSent /\ pxUp = NotCalled /\ pxResp = NoResponse
    /\ publicKey \in {Null, "walletA"}
    /\ toasts = <<>> /\ toastIdRef = 1
    /\ toastTimers = {} /\ pushed = <<>>
    /\ solBalance \in IF publicKey = Null THEN {0} ELSE SolLamports
    /\ trollBalance \in IF publicKey = Null THEN {0} ELSE TrollAmounts
    /\ trollDecimals = 9
    /\ trollAcctRef = IF trollBalance = 0 THEN Null ELSE "trollAcct"
    /\ swImpl = "v1" /\ inMintStr = "SOL"
    /\ amountStr = IF publicKey = Null THEN "0.1" ELSE "0"
    /\ outMintStr = "TROLL" /\ inputDecimals = 9
    /\ percent = Zero
    /\ quoteResponseMeta = Null /\ sw = IdleSw /\ swCalls = <<>>
    /\ lastTx = Null /\ showModal = FALSE
    /\ rt = IdleRt(3, 450) /\ rtLog = <<>>
    /\ wdOpen = FALSE /\ wdTo = "" /\ wdSol = "0.1"
    /\ wdFeeLamports = <<>>
    /\ wdEstimating = FALSE /\ wdSending = FALSE /\ wd = IdleWd
    /\ wdCalls = <<>> /\ rf = IdleRf
    /\ WS = FALSE /\ mounted = "yes" /\ fastPollRef = <<>> /\ fx = <<>>
    /\ listeners = {}
    /\ timers = {} /\ nextHandle = 1

SpecSlider == SliderInit /\ [][SliderNext]_vars

\* The page with the withdraw form open and filled in a way that does not
\* pass the checks of sendWithdrawSol, before any toast.
ToastInit ==
    /\ pxImpl = "route" /\ pxReq = [kind |-> "none"]
    /\ pxSent = NotSent /\ pxUp = NotCalled /\ pxResp = NoResponse
    /\ publicKey \in {Null, "walletA"}
    /\ toasts = <<>> /\ toastIdRef = 1
    /\ toastTimers = {} /\ pushed = <<>>
    /\ solBalance = 1000000000
    /\ trollBalance = 0 /\ trollDecimals = 9
    /\ trollAcctRef = Null
    /\ swImpl = "v1" /\ amountStr = "0.1" /\ inMintStr = "SOL"
    /\ outMintStr = "TROLL" /\ inputDecimals = 9
    /\ percent = Zero
    /\ quoteResponseMeta = Null /\ sw = IdleSw /\ swCalls = <<>>
    /\ lastTx = Null /\ showModal = FALSE
    /\ rt = IdleRt(3, 450) /\ rtLog = <<>>
    /\ wdOpen = TRUE
    /\ wdTo \in {"", "not-a-key"}
    /\ wdSol \in {"0", "0.1"}
    /\ wdFeeLamports = <<>>
    /\ wdEstimating = FALSE /\ wdSending = FALSE /\ wd = IdleWd
    /\ wdCalls = <<>> /\ rf = IdleRf
    /\ WS = FALSE /\ mounted = "yes" /\ fastPollRef = <<>> /\ fx = <<>>
    /\ listeners = {}
    /\ timers = {} /\ nextHandle = 1

SpecToasts == ToastInit /\ [][ToastNext]_vars

\* setTimeout callbacks run when their delay is over, and time goes on.
SpecToastsFair ==
    SpecToasts /\ WF_vars(ToastTimeout) /\ WF_vars(TimePasses)

\* A call of fetchQuoteWithRetry about to be made, with some arguments.
RetryInit ==
    /\ pxImpl = "route" /\ pxReq = [kind |-> "none"]
    /\ pxSent = NotSent /\ pxUp = NotCalled /\ pxResp = NoResponse
    /\ publicKey = Null
    /\ toasts = <<>> /\ toastIdRef = 1
    /\ toastTimers = {} /\ pushed = <<>>
    /\ solBalance = 0 /\ trollBalance = 0 /\ trollDecimals = 9
    /\ trollAcctRef = Null
    /\ swImpl = "v1" /\ amountStr = "0.1" /\ inMintStr = "SOL"
    /\ outMintStr = "TROLL" /\ inputDecimals = 9
    /\ percent = Zero
    /\ quoteResponseMeta = Null /\ sw = IdleSw /\ swCalls = <<>>
    /\ lastTx = Null /\ showModal = FALSE
    /\ \E tries \in -1..MaxTries, delayMs \in {0, 450} :
          rt = IdleRt(tries, delayMs)
    /\ rtLog = <<>>
    /\ wdOpen = FALSE /\ wdTo = "" /\ wdSol = "0.1"
    /\ wdFeeLamports = <<>>
    /\ wdEstimating = FALSE /\ wdSending = FALSE /\ wd = IdleWd
    /\ wdCalls = <<>> /\ rf = IdleRf
    /\ WS = FALSE /\ mounted = "yes" /\ fastPollRef = <<>> /\ fx = <<>>
    /\ listeners = {}
    /\ timers = {} /\ nextHandle = 1

SpecRetry == RetryInit /\ [][RtNext]_vars

\* Every doFetch settles and every timer fires.
SpecRetryFair == SpecRetry /\ WF_vars(DoFetchSettles) /\ WF_vars(DelayElapses)

(***************************************************************************)
(*                         CLAIMS ABOUT THE PROXY                          *)
(***************************************************************************)

Returned == pxResp.kind = "response"

\* C1: every response a route handler returns (GET, POST, OPTIONS; upstream
\* success, upstream status >= 400, fetch failure) carries the four CORS
\* headers with the values of CORS_HEADERS, whatever the upstream sent.
C1_CorsOnEveryResponse ==
    Returned => \A n \in CorsNames : pxResp.headers[n] = CORS_HEADERS[n]

\* C1 witness: the upstream sent its own CORS headers and the response that
\* was returned carries the fixed ones.
C1_Witness ==
    /\ Returned
    /\ pxUp.kind = "response"
    /\ pxUp.headers["access-control-allow-origin"] = "https://jup.ag"
    /\ pxResp.headers["access-control-allow-origin"] = "*"

\* C2: whenever the upstream fetch returned a response, the proxy's response
\* has the upstream's status and the upstream's body, for every status.
C2_StatusAndBodyForwarded ==
    pxUp.kind = "response" =>
        /\ Returned
        /\ pxResp.status = pxUp.status
        /\ pxResp.body.kind \in {"null", "bytes"}
        /\ BodyBytes(pxResp.body) = BodyBytes(pxUp.body)

\* C3: when the upstream fetch throws, proxy() returns a response with status
\* 502, Content-Type application/json and the body {error: 'Jupiter proxy
\* failed', message}, message being the error's message, or 'Unknown proxy
\* error' when the thrown value is not an Error.
C3_FetchFailureIs502 ==
    pxUp.kind = "throw" =>
        /\ Returned
        /\ pxResp.status = 502
        /\ pxResp.headers["content-type"] = "application/json"
        /\ pxResp.body = JsonBody("Jupiter proxy failed",
                                  IF pxUp.isError THEN pxUp.message
                                  ELSE "Unknown proxy error")

\* C3 witness: the fetch threw something that is not an Error and the
\* handler answered 502.
C3_Witness ==
    /\ pxUp.kind = "throw" /\ ~pxUp.isError
    /\ Returned /\ pxResp.status = 502
    /\ pxResp.body.message = "Unknown proxy error"

(***************************************************************************)
(*                          CLAIMS ABOUT doSwap                            *)
(***************************************************************************)

SwEnded == sw.pc \in {"done", "rejected"}

\* The toasts the running (or last) doSwap pushed.
SwToasts == SelectSeq(pushed, LAMBDA t : t.id >= sw.first)

SwErrorToast == \E i \in 1..Len(SwToasts) : SwToasts[i].kind = "error"

Count(seq, x) == Cardinality({i \in 1..Len(seq) : seq[i] = x})

Called(x) == Count(swCalls, x) > 0

\* C4: when no cached quote exists and the quote fetch fails, doSwap fetches
\* the quote again (more than one attempt) before it gives up.
C4_QuoteIsRetried ==
    (SwEnded /\ sw.quoteHow \in {"threw", "null"}) =>
        Count(swCalls, "fetchQuote") > 1

\* The checks doSwap of page.tsx line 761 makes on the form, as the claim
\* lists them.
SwapFormValid ==
    LET n == parseFloat(OrZero(amountStr))
    IN /\ publicKey # Null
       /\ n.kind = "num" /\ n.m > 0
       /\ ~Less(n, IF inMintStr = "SOL" THEN Num(1, -3) ELSE Num(1, 0))
       /\ amountAtomic.kind = "bigint" /\ amountAtomic.value # 0
       /\ inMintStr # outMintStr

IsPrefix(p, q) == Len(p) <= Len(q) /\ \A i \in 1..Len(p) : p[i] = q[i]

AfterQuote ==
    <<"fetchSwapTransaction", "sendTransaction", "refresh", "refreshBalances">>

\* C6: in every run of doSwap the calls come in the order quote, build,
\* send, report; fetchSwapTransaction gets a non-null quote, sendTransaction
\* is called only after a build result without 'error', lastTx and the modal
\* are set only after sendTransaction resolved with a transaction id, and a
\* rejected sendTransaction leaves both as they were.
C6_QuoteBuildSendReport ==
    /\ \/ IsPrefix(swCalls, AfterQuote)
       \/ IsPrefix(swCalls, <<"fetchQuote">> \o AfterQuote)
    /\ Called("fetchSwapTransaction") => sw.quote # Null
    /\ Called("sendTransaction") => sw.build = "ok"
    /\ (lastTx # sw.lastTx0 \/ showModal # sw.modal0 \/ sw.reported) =>
          /\ sw.send \in TxIds
          /\ lastTx = sw.send /\ showModal
          /\ Called("sendTransaction")
    /\ sw.send = "rejected" =>
          /\ lastTx = sw.lastTx0 /\ showModal = sw.modal0
          /\ ~sw.reported

\* C6 witness: a run that fetched a quote, built the transaction and whose
\* send was rejected.
C6_Witness ==
    /\ swCalls = <<"fetchQuote", "fetchSwapTransaction", "sendTransaction">>
    /\ sw.pc = "done" /\ sw.send = "rejected" /\ ~showModal /\ lastTx = Null

\* C7: every invocation of doSwap that ends without a submitted transaction
\* has pushed an error toast; none ends silently after 'Building route...'.
\* (Stated for the doSwap of page.tsx line 761.)
C7_NoSilentEnd ==
    (swImpl = "v1" /\ SwEnded /\ sw.send \notin TxIds) => SwErrorToast


(***************************************************************************)
(*                      CLAIMS ABOUT THE WITHDRAWAL                        *)
(***************************************************************************)

WdEnded == wd.pc = "done"

WdToasts == SelectSeq(pushed, LAMBDA t : t.id >= wd.first)

WdErrorToast == \E i \in 1..Len(WdToasts) : WdToasts[i].kind = "error"

WdSubmitted == Count(wdCalls, "sendTransaction") > 0

\* The five conditions of the withdrawal, on what the invocation saw.
WdMaySend ==
    /\ wd.pk # Null
    /\ NewPublicKey(Trim(wd.wdTo)) # Null
    /\ isFinite(AmountLamports(wd.wdSol))
    /\ AmountLamports(wd.wdSol).m > 0
    /\ wd.fee # <<>>
    /\ wd.have >= AmountLamports(wd.wdSol).m + wd.fee[1] + 4000000

\* C8: sendWithdrawSol calls sendTransaction only if a wallet key is present,
\* the trimmed destination is a valid key, the amount in lamports is finite
\* and positive, a fee is available, and the balance in lamports is at least
\* amount + fee + ceil(0.004 * LAMPORTS_PER_SOL); otherwise it has returned
\* after an error toast without submitting anything.
C8_SendOnlyWhenCovered ==
    /\ WdSubmitted => WdMaySend
    /\ (WdEnded /\ ~WdMaySend) => (WdErrorToast /\ ~WdSubmitted)

\* A withdrawal submitted with a balance of exactly amount + fee + buffer.
C8_Witness ==
    /\ WdSubmitted
    /\ wd.wdSol = "0.1" /\ wd.fee = <<5000>> /\ wd.have = 104005000

\* C9: estimateSolTransferFee never throws: it returns the fee when the
\* wallet is connected, both RPC calls succeed and the fee value is a number,
\* and null otherwise; a sendWithdrawSol without cached fee whose estimate
\* returned null has ended with the toast 'Could not estimate network fee.
\* Try again.' and has submitted no transaction.
C9_EstimateNeverThrows ==
    /\ \A pk \in {Null, "walletA"}, rpc \in FeeRpcOutcomes :
          LET r == estimateSolTransferFee(pk, rpc)
          IN /\ r.kind = "return"
             /\ IF pk # Null /\ rpc.blockhashOk /\ rpc.fee = "number"
                THEN r.value = <<rpc.value>>
                ELSE r.value = <<>>
    /\ wd.pc # "rejected"
    /\ (wd.cached = <<>> /\ Count(wdCalls, "estimateSolTransferFee") > 0
        /\ wd.pc # "estimate" /\ wd.fee = <<>>) =>
          /\ WdEnded
          /\ ~WdSubmitted
          /\ Len(WdToasts) = 1
          /\ WdToasts[1].kind = "error"
          /\ WdToasts[1].message = "Could not estimate network fee. Try again."

\* A withdrawal without cached fee whose estimate failed on an RPC error.
C9_Witness ==
    /\ WdEnded
    /\ wd.cached = <<>> /\ Count(wdCalls, "estimateSolTransferFee") > 0
    /\ wd.rpc.blockhashOk /\ wd.rpc.fee = "throw"
    /\ wd.fee = <<>>
    /\ Len(WdToasts) = 1

(***************************************************************************)
(*                 CLAIMS ABOUT THE SUBSCRIPTION EFFECT                    *)
(***************************************************************************)

\* C10: a run of the subscription effect starts the fast poll only when a
\* call that sets up an account-change subscription threw in that run (so a
\* run whose setup succeeded starts none); a run without WS URL or without
\* wallet creates neither a subscription nor a fast poll; and at most one
\* fast-poll timer exists at any time.
C10_FastPollOnlyAfterFailure ==
    /\ \A r \in 1..Len(fx) :
          /\ fx[r].timer # <<>> => fx[r].threw
          /\ (fx[r].pc = "done" /\ ~fx[r].threw) => fx[r].timer = <<>>
          /\ (~WS \/ fx[r].pk = Null) =>
                (fx[r].subs = {} /\ fx[r].timer = <<>>)
    /\ timers \subseteq {fx[r].timer[1] : r \in {q \in 1..Len(fx) :
                                                   fx[q].timer # <<>>}}
    /\ Cardinality(timers) <= 1

\* Two runs whose setup threw: one has started the fast poll, which is
\* active, and the other found fastPollRef set and started none.
C10_Witness ==
    /\ \E r \in 1..Len(fx) : fx[r].timer # <<>> /\ fx[r].timer[1] \in timers
    /\ \E r \in 1..Len(fx) :
          fx[r].pc = "done" /\ fx[r].threw /\ fx[r].timer = <<>>

(***************************************************************************)
(*                     CLAIMS ABOUT THE AMOUNT FORM                        *)
(***************************************************************************)

\* C11: the atomic amount is a BigInt that equals floor(n * 10^inputDecimals)
\* for the parsed amount string n, equals 0 when the string is empty,
\* unparseable, non-finite, zero or negative, and is never negative.
C11_AtomicIsFloor ==
    LET n == parseFloat(OrZero(amountStr))
    IN /\ amountAtomic.kind = "bigint"
       /\ amountAtomic.value >= 0
       /\ IF isFinite(n) /\ n.m > 0
          THEN amountAtomic.value = FloorScaled(n, inputDecimals)
          ELSE amountAtomic.value = 0

(***************************************************************************)
(*                   CLAIMS ABOUT fetchQuoteWithRetry                      *)
(***************************************************************************)

RtEnded == rt.pc \in {"returned", "threw"}

RtAt(ev) == {j \in 1..Len(rtLog) : rtLog[j].ev = ev}

\* The settlements of attempts that resolved to a truthy value, and those
\* that failed (threw, or resolved to a falsy value).
RtSucceeded ==
    {j \in RtAt("resolve") : rtLog[j].val \notin {Null, Undefined, ""}}

RtFailed == RtAt("throw") \cup (RtAt("resolve") \ RtSucceeded)

\* The number of the attempt (from 1) that settled at position j.
RtAttempt(j) == Cardinality({k \in RtAt("call") : k < j})

\* C12: fetchQuoteWithRetry returns the result of the first attempt that
\* resolves to a truthy value and calls doFetch no more after it; an attempt
\* that throws or resolves to a falsy value is followed by the wait and,
\* while attempts remain, by the next attempt.
C12_FirstTruthyIsReturned ==
    /\ \A j \in RtSucceeded :
          /\ j = Len(rtLog)
          /\ rt.pc = "returned" /\ rt.result = rtLog[j].val
    /\ rt.pc = "returned" => Len(rtLog) \in RtSucceeded
    /\ \A j \in RtFailed :
          /\ rtLog[j + 1].ev = "wait"
          /\ IF j + 1 = Len(rtLog)
             THEN \/ rt.pc = "wait"
                  \/ rt.pc = "threw" /\ RtAttempt(j) >= rt.tries
             ELSE rtLog[j + 2].ev = "call"

\* A quote returned by the third attempt, after one attempt that threw and
\* one that resolved to the empty string.
C12_Witness ==
    /\ rt.pc = "returned" /\ rt.result = "quoteB"
    /\ Cardinality(RtAt("call")) = 3
    /\ rtLog[2].ev = "throw"
    /\ rtLog[5].ev = "resolve" /\ rtLog[5].val = ""

\* The value thrown by the most recent attempt that threw (Null when none
\* threw).
RtLastThrown ==
    IF RtAt("throw") = {} THEN Null
    ELSE rtLog[CHOOSE j \in RtAt("throw") :
                   \A k \in RtAt("throw") : k <= j].val

\* C13 as stated: when all attempts fail the function throws what the most
\* recent attempt that threw has thrown, or new Error('Quote failed after
\* retries') when no attempt threw; it never returns a falsy value.
C13_ThrowsLastError ==
    /\ rt.pc = "threw" =>
          rt.thrown = (IF RtAt("throw") = {} THEN NewError ELSE RtLastThrown)
    /\ rt.pc = "returned" => rt.result \notin {Null, Undefined, ""}

\* C13, amended: when all attempts fail the function throws what the most
\* recent attempt that threw has thrown unless that is null or undefined;
\* then, and when no attempt threw, it throws new Error('Quote failed after
\* retries'). It never returns a falsy value.
C13_ThrowsLastErrorUnlessNullish ==
    /\ rt.pc = "threw" =>
          rt.thrown = (IF RtAt("throw") = {} \/ RtLastThrown = Undefined
                       THEN NewError ELSE RtLastThrown)
    /\ rt.pc = "returned" => rt.result \notin {Null, Undefined, ""}

\* Three failed attempts: the first threw an error, the second resolved to
\* a falsy value, the last threw undefined; a new Error has been thrown.
C13_Witness ==
    /\ rt.pc = "threw" /\ rt.tries = 3
    /\ rtLog[2].ev = "throw" /\ rtLog[2].val = "errA"
    /\ rtLog[5].ev = "resolve"
    /\ rtLog[8].ev = "throw" /\ rtLog[8].val = Undefined
    /\ rt.thrown = NewError

\* The k-th wait (from 0) is of delayMs * (k + 1) and follows a failure.
RtWaitsGrow ==
    \A j \in RtAt("wait") :
       /\ j - 1 \in RtFailed
       /\ rtLog[j].ms = rt.delayMs * RtAttempt(j)

RtCallsBounded ==
    /\ Cardinality(RtAt("call")) <= (IF rt.tries > 0 THEN rt.tries ELSE 0)
    /\ (rt.tries <= 0 /\ rt.pc # "idle") => rt.pc = "threw"

\* C14: every call of fetchQuoteWithRetry ends (returns or throws) when every
\* doFetch settles; it calls doFetch at most `tries` times and not at all
\* when tries <= 0, and waits delayMs * (i + 1) after the failed attempt i.
C14_Terminates ==
    /\ [](RtCallsBounded /\ RtWaitsGrow)
    /\ (rt.pc # "idle") ~> RtEnded

\* Three attempts, all failed, with waits of 450, 900 and 1350 ms, and the
\* throw.
C14_Witness ==
    /\ rt.pc = "threw" /\ rt.tries = 3 /\ rt.delayMs = 450
    /\ Cardinality(RtAt("call")) = 3
    /\ rtLog[3].ms = 450 /\ rtLog[6].ms = 900 /\ rtLog[9].ms = 1350

(***************************************************************************)
(*                    CLAIMS ABOUT tryFetchQuoteSafe                       *)
(***************************************************************************)

\* The doSwap of page.tsx line 761 whose quote came from tryFetchQuoteSafe.
QuoteTried == swImpl = "v1" /\ sw.quoteHow \in {"threw", "null", "resolved"}

SwErrorToasts == SelectSeq(SwToasts, LAMBDA t : t.kind = "error")

\* C15: tryFetchQuoteSafe never rejects: it returns the quote fetchQuote
\* resolved to when that is not null, null without a call of onError when it
\* is null or undefined, and null after exactly one call of onError when
\* fetchQuote threw, also when the body of the error's response cannot be
\* read or parsed.
C15_NeverRejects ==
    /\ \A o \in QuoteOutcomes :
          LET r == tryFetchQuoteSafe(o)
          IN /\ r.kind = "return"
             /\ o.kind = "resolve" => (r.quote = o.quote /\ r.onError = Absent)
             /\ o.kind = "throw" => (r.quote = Null /\ r.onError # Absent)
    /\ QuoteTried =>
          /\ sw.pc # "rejected"
          /\ sw.quoteHow = "resolved" =>
                (sw.quote = "quoteA" /\ Called("fetchSwapTransaction"))
          /\ sw.quoteHow = "null" =>
                (sw.pc = "done" /\ Len(SwErrorToasts) = 0)
          /\ sw.quoteHow = "threw" =>
                (sw.pc = "done" /\ Len(SwErrorToasts) = 1
                 /\ ~Called("fetchSwapTransaction"))

\* fetchQuote threw an error whose response body cannot be read: doSwap
\* went on with null after one error toast.
C15_Witness ==
    /\ QuoteTried /\ sw.quoteHow = "threw"
    /\ sw.quoteErr.response.body = "unreadable"
    /\ sw.pc = "done" /\ Len(SwErrorToasts) = 1

\* What tryFetchQuoteSafe says about the error itself.
ClassifiedCause(e) ==
    IF e.response # NoResp
    THEN CASE e.response.body = "errorCode" ->
                  "Quote failed (COULD_NOT_FIND_ANY_ROUTE)."
           [] e.response.body = "error" -> "Quote failed (Bad request)."
           [] OTHER -> "Quote failed (HTTP "
                          \o ToString(e.response.status) \o ")."
    ELSE IF e.message = "" THEN "Quote failed."
    ELSE "Quote failed: " \o e.message

TryLarger == " Try a slightly larger amount or different route."

CheckInternet == " Please check your internet and try again."

QuoteThrew == QuoteTried /\ sw.quoteHow = "threw"

\* C16 as stated: for a thrown quote error that carries a response the
\* message names the body's errorCode or error, or else 'HTTP <status>', and
\* ends with 'Try a slightly larger amount or different route.'; for an
\* error without response it is 'Quote failed: <message>' (or 'Quote
\* failed.') and ends with 'Please check your internet and try again.'.
C16_ErrorIsClassified ==
    QuoteThrew =>
        /\ Len(SwErrorToasts) = 1
        /\ SwErrorToasts[1].message =
              ClassifiedCause(sw.quoteErr)
                 \o (IF sw.quoteErr.response # NoResp
                     THEN TryLarger ELSE CheckInternet)

\* C16 amended: the message names the cause as stated, and it ends with
\* 'Try a slightly larger amount or different route.' exactly when the error
\* carries a response whose status is not 0; an error without response and
\* an error whose response has status 0 end with 'Please check your
\* internet and try again.'.
C16_ErrorIsClassifiedByStatus ==
    QuoteThrew =>
        /\ Len(SwErrorToasts) = 1
        /\ SwErrorToasts[1].message =
              ClassifiedCause(sw.quoteErr)
                 \o (IF sw.quoteErr.response # NoResp
                        /\ sw.quoteErr.response.status # 0
                     THEN TryLarger ELSE CheckInternet)

\* An error whose response has status 0, told to the user with the advice to
\* check the connection.
C16_Witness ==
    /\ QuoteThrew
    /\ sw.quoteErr.response.status = 0
    /\ sw.quoteErr.response.body = "text"
    /\ SwErrorToasts[1].message =
          "Quote failed (HTTP 0). Please check your internet and try again."

(***************************************************************************)
(*               CLAIMS ABOUT THE WITHDRAW FORM AND wdSending              *)
(***************************************************************************)

\* sendWithdrawSol is between setWdSending(true) and its finally block.
WdInTry == wd.pc \in {"blockhash", "send", "balances"}

WdForm == <<wdOpen, wdTo, wdSol, wdFeeLamports>>

\* A step of sendWithdrawSol: only it changes wd, wdCalls and the toasts.
WdStep == <<wd, wdCalls, toasts>>' # <<wd, wdCalls, toasts>>

\* The step in which sendTransaction resolved.
WdSentStep == wd.pc = "send" /\ wd'.pc = "balances"

\* C18: the step in which the withdrawal is sent closes the modal, sets
\* wdTo to '', wdSol to '0.1' and wdFeeLamports to null, and then calls
\* refreshBalances; every other step of sendWithdrawSol, an abort on
\* validation and a failed send included, leaves wdOpen, wdTo, wdSol and
\* wdFeeLamports as they were.
C18_FormResetOnlyOnSuccess ==
    /\ [](wd.pc = "balances" =>
             /\ ~wdOpen /\ wdTo = "" /\ wdSol = "0.1"
             /\ wdCalls[Len(wdCalls)] = "refreshBalances")
    /\ [][WdStep =>
             IF WdSentStep
             THEN /\ wdOpen' = FALSE /\ wdTo' = "" /\ wdSol' = "0.1"
                  /\ wdFeeLamports' = <<>>
                  /\ wdCalls' = Append(wdCalls, "refreshBalances")
                  /\ UNCHANGED <<solBalance, trollBalance>>
             ELSE UNCHANGED WdForm]_vars

\* A withdrawal was sent from a form that held an address and an amount
\* other than the defaults: the modal is closed and the form is reset while
\* refreshBalances is awaited.
C18_Witness ==
    /\ wd.pc = "balances"
    /\ wd.wdTo # "" /\ wd.wdSol # "0.1"
    /\ ~wdOpen /\ wdTo = "" /\ wdSol = "0.1" /\ wdFeeLamports = <<>>

(***************************************************************************)
(*                      CLAIMS ABOUT refreshBalances                       *)
(***************************************************************************)

Balances == <<solBalance, trollBalance, trollDecimals, trollAcctRef>>

\* The RPC calls of refreshBalances in the order of the code, and the one
\* that failed, if any.
FailedCall(rpc) ==
    IF ~rpc.balanceOk THEN "getBalance"
    ELSE CASE rpc.rest = "decimalsThrow" -> "getMintDecimals"
           [] rpc.rest = "accountsThrow" -> "getTokenAccountsByOwner"
           [] rpc.rest = "unparsedBalanceThrow" -> "getTokenAccountBalance"
           [] OTHER -> "none"

\* What the claim says of an invocation with the public key pk and the RPC
\* results rpc.
BalancesAsStated(pk, rpc) ==
    IF pk = Null
    THEN solBalance' = 0 /\ trollBalance' = 0 /\ trollAcctRef' = Null
    ELSE CASE FailedCall(rpc) = "getBalance" -> UNCHANGED Balances
           [] FailedCall(rpc) = "getMintDecimals" ->
                 UNCHANGED <<trollBalance, trollDecimals, trollAcctRef>>
           [] FailedCall(rpc) = "getTokenAccountsByOwner" ->
                 UNCHANGED <<trollBalance, trollAcctRef>>
           [] FailedCall(rpc) = "getTokenAccountBalance" ->
                 UNCHANGED trollBalance
           [] OTHER ->
                 rpc.rest = "noAccount" =>
                    (trollBalance' = 0 /\ trollAcctRef' = Null)

\* C19: refreshBalances never throws; without a public key it sets the SOL
\* and the TROLL balance to 0 and clears the token account; for an owner
\* without TROLL token account it sets the TROLL balance to 0 and clears the
\* token account; and when an RPC call fails, the balances and the token
\* account it has not written yet keep the values they had.
C19_FailureKeepsBalances ==
    [][\A pk \in {Null, "walletA"} : \A rpc \in BalanceRpcOutcomes :
          refreshBalances(pk, rpc) => BalancesAsStated(pk, rpc)]_vars

(***************************************************************************)
(*                  CLAIMS ABOUT THE UPSTREAM REQUEST                      *)
(***************************************************************************)

Forwarded == {"content-type", "accept", "authorization"}

\* The proxy has called the upstream for the request at hand.
SentUpstream == pxReq.kind = "request" /\ pxSent # NotSent

\* C20: the upstream request carries a header only if it is content-type,
\* accept or authorization; content-type and authorization have the value
\* of the incoming request and are there only if the incoming request has
\* them; accept has the incoming value, or 'application/json' when the
\* incoming request has none; cookie and every other incoming header are
\* never passed on.
C20_OnlyThreeHeadersForwarded ==
    SentUpstream =>
        \A n \in HeaderNames :
            LET in == pxReq.headers[n]
                out == pxSent.headers[n]
            IN /\ n \notin Forwarded => out = Absent
               /\ n \in Forwarded \ {"accept"} =>
                     (out = in /\ (out # Absent => in # Absent))
               /\ n = "accept" =>
                     out = (IF in \in {Absent, ""} THEN "application/json"
                            ELSE in)

\* A POST with a cookie, an authorization and no accept header went
\* upstream: with content-type, authorization and the default accept, and
\* without the cookie.
C20_Witness ==
    /\ SentUpstream /\ pxReq.method = "POST"
    /\ pxReq.headers["cookie"] = "sid=1"
    /\ pxReq.headers["accept"] = Absent
    /\ pxSent.headers["cookie"] = Absent
    /\ pxSent.headers["accept"] = "application/json"
    /\ pxSent.headers["authorization"] = "Bearer t"
    /\ pxSent.headers["content-type"] = "application/json"

(***************************************************************************)
(*              CLAIMS ABOUT THE HEADERS OF THE PROXY'S RESPONSE           *)
(***************************************************************************)

\* C21: a response the proxy returns never carries the content-encoding or
\* the content-length header of the upstream response, whether the upstream
\* status is below 400 or not.
C21_NoUpstreamEncodingOrLength ==
    Returned =>
        /\ pxResp.headers["content-encoding"] = Absent
        /\ pxResp.headers["content-length"] = Absent

(***************************************************************************)
(*                 CLAIMS ABOUT THE SLIDER AND THE MAX BUTTON              *)
(***************************************************************************)

\* The slider effect ran in this step and wrote the amount field.
SliderWrote == mounted' = "yes" /\ Connected' /\ SliderDeps' # SliderDeps

\* The number n is greater than the base.
Exceeds(n, base) ==
    LET k == n.e + base.scale
    IN IF k >= 0 THEN n.m * Pow10(k) > base.value
       ELSE n.m > base.value * Pow10(0 - k)

\* C22: what the slider effect and the MAX button write into the amount
\* field is never more than the base (max(0, solBalance - 0.004) for SOL,
\* the TROLL balance otherwise); without a connected wallet the slider
\* effect leaves the amount field alone; and it writes '0' when the value it
\* computed is not positive.
C22_WrittenAmountWithinBase ==
    [][LET base == BaseOf(inMintStr', solBalance', trollBalance')
       IN /\ (SliderWrote \/ MaxClick) =>
                ~Exceeds(parseFloat(amountStr'), base)
          /\ (~Connected' /\ (SetPercent \/ SelectInMint \/ SelectOutMint
                              \/ flip)) => amountStr' = amountStr
          /\ (SliderWrote /\ (percent'.kind # "num" \/ percent'.m <= 0
                              \/ base.value <= 0)) => amountStr' = "0"
      ]_vars

(***************************************************************************)
(*                         CLAIMS ABOUT THE TOASTS                         *)
(***************************************************************************)

Ids(t) == {t[i].id : i \in 1..Len(t)}

Shown(id) == id \in Ids(toasts)

\* The ids handed out so far are 1, 2, 3, ... in the order of the pushes,
\* and the next id is above them all.
IdsIncrease ==
    /\ \A i \in 1..Len(pushed) : pushed[i].id = i
    /\ toastIdRef = Len(pushed) + 1
    /\ \A i, j \in 1..Len(toasts) : i < j => toasts[i].id < toasts[j].id
    /\ Ids(toasts) \subseteq Ids(pushed)

\* A toast that is shown has its removal timer running, with no more than
\* 4500 ms to go.
TimerRuns ==
    \A id \in Ids(toasts) :
        \E tm \in toastTimers : tm.id = id /\ tm.ms \in 0..ToastMs

\* A step takes at most one toast from the list and leaves the others as
\* they are and in their order.
RemovesOne ==
    \/ \E t \in {pushed'[i] : i \in 1..Len(pushed')} :
          toasts' = Append(toasts, t)
    \/ toasts' = toasts
    \/ \E id \in Ids(toasts) :
          toasts' = SelectSeq(toasts, LAMBDA x : x.id # id)

\* C23: every toast gets an id no other toast of the component had (the ids
\* strictly increase); a toast that is shown is removed from the list in
\* the end, by its timer 4500 ms after the push or before that by
\* dismissToast; and the removal of a toast removes no other toast.
C23_ToastsUniqueAndRemoved ==
    /\ [](IdsIncrease /\ TimerRuns)
    /\ [][RemovesOne]_vars
    /\ \A id \in 1..MaxToasts : Shown(id) ~> ~Shown(id)

\* Two toasts were pushed, the timer of the first has run out and removed
\* it, the second, pushed later, is still shown with its timer running.
C23_Witness ==
    /\ Len(pushed) >= 2
    /\ ~Shown(1) /\ Shown(2)
    /\ \A tm \in toastTimers : tm.id # 1
    /\ \E tm \in toastTimers : tm.id = 2 /\ tm.ms < ToastMs

(***************************************************************************)
(*            CLAIMS ABOUT THE CLEANUP OF THE SUBSCRIPTION EFFECT          *)
(***************************************************************************)

\* C24: once the cleanup of a run of the subscription effect has run, no
\* account-change listener that the run registered is registered any more
\* and no fast-poll timer that the run started is active, also when the
\* cleanup came while the async setup of the run was still under way.
C24_CleanupLeavesNothing ==
    \A r \in 1..Len(fx) :
        fx[r].cleaned =>
            /\ fx[r].subs \cap listeners = {}
            /\ Range(fx[r].timer) \cap timers = {}

====
